---- MODULE Spec2Model ----
(***************************************************************************)
(* Task interruption and partial-result preservation                       *)
(* (backend/interruption_manager.py, backend/runner.py).                   *)
(*                                                                         *)
(* TaskContext objects live on a heap (contexts, indexed by task id); the  *)
(* manager's dictionaries hold references (task ids) into it, exactly as   *)
(* the Python dictionaries and lists hold references to the same object.   *)
(* updated_at, the wall-clock stamp that every mutation of a context        *)
(* rewrites, is kept as the number of times it has been rewritten: two     *)
(* readings of one context are equal when no operation has stamped the     *)
(* context in between. created_at is written once and never again; it is   *)
(* left out of the record and of get_status_dict.                          *)
(***************************************************************************)
EXTENDS Naturals, Sequences, FiniteSets, TLC

\* ------------------------------------------------------------- bounds
MaxTasks == 3          \* contexts created in one run
MaxCalls == 4          \* manager calls in one run of Spec
MaxHistoryCalls == 7   \* manager calls in one run of SpecHistory
MaxRunnerCalls == 4    \* submissions and interrupts in one run of SpecRunner
MaxNotifyCalls == 4    \* manager calls, registrations included, in one run of SpecNotify
MaxStoreCalls == 5     \* StateStore calls in one run of SpecStore
MaxRegistrations == 2  \* callback registrations in one run of SpecUsers
MaxQueryCalls == 5     \* manager calls in one run of SpecQuery
MaxThreadCalls == 3    \* save_partial calls in one run of SpecThreads
MaxRaceCalls == 3      \* submissions in one run of SpecRace
MaxCancelCalls == 2    \* manager calls in one run of SpecCancel
MaxSims == 2           \* simulate_agent_work units in one run of SpecCancel
MaxChunks == 2         \* chunks of work of one simulate_agent_work unit
MaxUnregisterCalls == 5 \* manager calls, (un)registrations included, in one run of SpecUnregister
MaxCallbackCalls == 3  \* manager calls, (un)registrations included, in one run of SpecCallbacks

\* ------------------------------------------------------------- values
None == "None"
Users == {"u1", "u2"}
Queries == {"flights", "hotels"}
Intents == {"", "flight"}
Agents == {"flight", "hotel"}
Payloads == {"p1", "p2"}
Errors == {"boom"}
Finals == {"r1"}

\* class TaskStatus
IDLE == "idle"
QUEUED == "queued"
RUNNING == "running"
INTERRUPTED == "interrupted"
COMPLETED == "completed"
FAILED == "failed"
CANCELLED == "cancelled"
TaskStatus == {IDLE, QUEUED, RUNNING, INTERRUPTED, COMPLETED, FAILED, CANCELLED}

\* the bound on the interruption history of one user
HistoryLimit == 5

NoTask == 0

\* a dictionary without keys
EmptyDict == [k \in {} |-> None]

\* the coroutines that call create_task_context concurrently
Procs == {"A", "B", "C"}
NoProc == "NoProc"

VARIABLES
    user_tasks,           \* _user_tasks: user -> task id of its context, NoTask when absent
    contexts,             \* heap of TaskContext objects, contexts[i].task_id = i
    interrupted_history,  \* _interrupted_history: user -> sequence of task ids
    status_callbacks,     \* _status_callbacks: user -> sequence of callbacks
    notified,             \* callback invocations made by the last call, in order
    atasks,               \* asyncio.Task objects of the execution units, by unit id
    calls,                \* number of manager calls made so far
    last,                 \* the last manager call: its name, user and the arguments
                          \* that the properties below read
    saved,                \* user -> agent -> the payload last written for that agent
                          \* on the user's current context by a caller (history variable)
    interruptions,        \* user -> the task ids interrupted with preservation, in
                          \* the order of the interruptions (history variable)
    lock,                 \* _lock: the coroutine holding it, NoProc when released
    waiters,              \* _lock: the coroutines waiting for it, first come first
    pc,                   \* coroutine -> where it is in its create_task_context call
    arg,                  \* coroutine -> the arguments of its call
    ret,                  \* coroutine -> task id of the context its call returned
    acquired,             \* the coroutines in the order they took the lock
                          \* (history variable)
    contended,            \* the coroutines that had to wait for the lock
                          \* (history variable)
    units,                \* the _run closures started by handle_user_message, by
                          \* unit id: units[k] runs as atasks[k]; in SpecAgents the
                          \* BaseAgent.run calls started by process_message
    store,                \* StateStore._store: request id -> agent -> its entry
    agents                \* the CoordinatorAgent: its running_tasks, the Event objects
                          \* made by the runs and the _cancel_event of its two agents

mgrVars == <<user_tasks, contexts, interrupted_history, status_callbacks, notified,
             atasks>>
callVars == <<calls, last, saved, interruptions>>
coVars == <<lock, waiters, pc, arg, ret, acquired, contended>>
vars == <<mgrVars, callVars, coVars, units, store, agents>>

\* The manager object (and the asyncio tasks it can cancel) as one value.
Mgr ==
    [user_tasks |-> user_tasks, contexts |-> contexts,
     interrupted_history |-> interrupted_history,
     status_callbacks |-> status_callbacks, notified |-> <<>>, atasks |-> atasks]

Install(m) ==
    /\ user_tasks' = m.user_tasks
    /\ contexts' = m.contexts
    /\ interrupted_history' = m.interrupted_history
    /\ status_callbacks' = m.status_callbacks
    /\ notified' = m.notified
    /\ atasks' = m.atasks

\* an empty dictionary of partial results (no agent has an entry)
NoResults == [a \in Agents |-> None]

\* @dataclass TaskContext, as constructed by create_task_context
TaskContext(task_id, user_id, query, intent) ==
    [task_id |-> task_id, user_id |-> user_id, query |-> query, intent |-> intent,
     status |-> QUEUED,
     current_agent |-> None,
     agents_completed |-> <<>>,
     partial_results |-> NoResults,
     final_results |-> None,
     cancel_event |-> FALSE,
     error |-> None,
     task |-> NoTask,
     updated_at |-> 0]

InSeq(x, s) == \E i \in 1..Len(s) : s[i] = x

\* The status callbacks a client registers: "ws" returns, "bad" raises.
Callbacks == {"ws", "bad"}
Raising == {"bad"}

\* one callback invocation: the callback, the context object it is handed (its
\* state at the time of the call) and whether the callback raised
Invocation(m, callback, user_id, task_id) ==
    [callback |-> callback, user_id |-> user_id, task_id |-> task_id,
     status |-> m.contexts[task_id].status,
     context |-> m.contexts[task_id],
     history |-> m.interrupted_history[user_id],
     raised |-> callback \in Raising]

\* the callbacks of s up to and including the first one that raises
UpToRaise(s) ==
    IF \E i \in 1..Len(s) : s[i] \in Raising
    THEN SubSeq(s, 1, CHOOSE i \in 1..Len(s) :
                        s[i] \in Raising /\ \A j \in 1..(i - 1) : s[j] \notin Raising)
    ELSE s

\* _notify_status_change with the try/except around the loop, not inside it
_notify_until_raise(m, user_id, task_id) ==
    LET cbs == UpToRaise(m.status_callbacks[user_id])
    IN  [m EXCEPT !.notified =
           @ \o [i \in 1..Len(cbs) |-> Invocation(m, cbs[i], user_id, task_id)]]

\* _notify_status_change walking the callback list from its end
_notify_reversed(m, user_id, task_id) ==
    LET cbs == m.status_callbacks[user_id]
    IN  [m EXCEPT !.notified =
           @ \o [i \in 1..Len(cbs) |->
                   Invocation(m, cbs[Len(cbs) + 1 - i], user_id, task_id)]]

\* _notify_status_change calling the callbacks of every user
_notify_all_users(m, user_id, task_id) ==
    LET cbs == m.status_callbacks[user_id]
        other == CHOOSE v \in Users : v # user_id
        more == m.status_callbacks[other]
    IN  [m EXCEPT !.notified =
           @ \o [i \in 1..Len(cbs) |-> Invocation(m, cbs[i], user_id, task_id)]
             \o [i \in 1..Len(more) |-> Invocation(m, more[i], other, task_id)]]

\* _notify_status_change: every callback of the user is called, in list order,
\* with the context object; an exception of a callback is caught and printed,
\* and the loop goes on with the next callback.
_notify_status_change(m, user_id, task_id) ==
    LET cbs == m.status_callbacks[user_id]
    IN  [m EXCEPT !.notified =
           @ \o [i \in 1..Len(cbs) |-> Invocation(m, cbs[i], user_id, task_id)]]

\* register_status_callback: the callback is appended to the user's list (a
\* callback registered twice is in the list twice)
register_status_callback(m, user_id, callback) ==
    [m EXCEPT !.status_callbacks[user_id] = Append(@, callback)]

\* list.remove(x): the first occurrence of x is taken out of s
RemoveFirst(s, x) ==
    IF ~InSeq(x, s) THEN s
    ELSE LET i == CHOOSE j \in 1..Len(s) : s[j] = x /\ \A k \in 1..(j - 1) : s[k] # x
         IN  SubSeq(s, 1, i - 1) \o SubSeq(s, i + 1, Len(s))

\* unregister_status_callback dropping every registration of the callback
unregister_every(m, user_id, callback) ==
    [m EXCEPT !.status_callbacks[user_id] = SelectSeq(@, LAMBDA c : c # callback)]

\* unregister_status_callback: one registration of the callback is removed from
\* the user's list; the ValueError of a callback that is not in it is swallowed
unregister_status_callback(m, user_id, callback) ==
    [m EXCEPT !.status_callbacks[user_id] = RemoveFirst(@, callback)]

\* _interrupt_task_internal without the status update (lines 253-254 dropped)
_interrupt_keeps_status(m, user_id, preserve_context) ==
    IF m.user_tasks[user_id] = NoTask THEN m
    ELSE
      LET id == m.user_tasks[user_id]
          m1 == [m EXCEPT !.contexts[id].cancel_event = TRUE]
          h == Append(m1.interrupted_history[user_id], id)
          m3 == IF preserve_context
                THEN [m1 EXCEPT !.interrupted_history[user_id] =
                                   IF Len(h) > HistoryLimit THEN Tail(h) ELSE h]
                ELSE m1
      IN  _notify_status_change(m3, user_id, id)

\* _interrupt_task_internal evicting one entry too late ("> 5" written as "> 6")
_interrupt_evicts_late(m, user_id, preserve_context) ==
    IF m.user_tasks[user_id] = NoTask THEN m
    ELSE
      LET id == m.user_tasks[user_id]
          m2 == [m EXCEPT !.contexts[id].cancel_event = TRUE,
                          !.contexts[id].status = INTERRUPTED]
          h == Append(m2.interrupted_history[user_id], id)
          m3 == IF preserve_context
                THEN [m2 EXCEPT !.interrupted_history[user_id] =
                                   IF Len(h) > HistoryLimit + 1 THEN Tail(h) ELSE h]
                ELSE m2
      IN  _notify_status_change(m3, user_id, id)

\* _interrupt_task_internal without its final notification (line 268 dropped)
_interrupt_silent(m, user_id, preserve_context) ==
    IF m.user_tasks[user_id] = NoTask THEN m
    ELSE
      LET id == m.user_tasks[user_id]
          m2 == [m EXCEPT !.contexts[id].cancel_event = TRUE,
                          !.contexts[id].status = INTERRUPTED]
          h == Append(m2.interrupted_history[user_id], id)
      IN  IF preserve_context
          THEN [m2 EXCEPT !.interrupted_history[user_id] =
                             IF Len(h) > HistoryLimit THEN Tail(h) ELSE h]
          ELSE m2

\* _interrupt_task_internal removing the interrupted context from _user_tasks
_interrupt_pops(m, user_id, preserve_context) ==
    IF m.user_tasks[user_id] = NoTask THEN m
    ELSE
      LET id == m.user_tasks[user_id]
          m2 == [m EXCEPT !.contexts[id].cancel_event = TRUE,
                          !.contexts[id].status = INTERRUPTED]
          h == Append(m2.interrupted_history[user_id], id)
          m3 == IF preserve_context
                THEN [m2 EXCEPT !.interrupted_history[user_id] =
                                   IF Len(h) > HistoryLimit THEN Tail(h) ELSE h]
                ELSE m2
          m4 == _notify_status_change(m3, user_id, id)
      IN  [m4 EXCEPT !.user_tasks[user_id] = NoTask]

\* _interrupt_task_internal notifying before the context is added to the history
\* (line 268 moved before line 257)
_interrupt_notifies_first(m, user_id, preserve_context) ==
    IF m.user_tasks[user_id] = NoTask THEN m
    ELSE
      LET id == m.user_tasks[user_id]
          m2 == _notify_status_change(
                  [m EXCEPT !.contexts[id].cancel_event = TRUE,
                            !.contexts[id].status = INTERRUPTED],
                  user_id, id)
          h == Append(m2.interrupted_history[user_id], id)
      IN  IF preserve_context
          THEN [m2 EXCEPT !.interrupted_history[user_id] =
                             IF Len(h) > HistoryLimit THEN Tail(h) ELSE h]
          ELSE m2

\* _interrupt_task_internal (the caller holds the lock)
_interrupt_task_internal(m, user_id, preserve_context) ==
    IF m.user_tasks[user_id] = NoTask THEN m
    ELSE
      LET id == m.user_tasks[user_id]
          t == m.contexts[id].task
          \* context.cancel_event.set(); context.task.cancel() when not done
          m1 == [m EXCEPT !.contexts[id].cancel_event = TRUE,
                          !.atasks = IF t # NoTask /\ ~m.atasks[t].done
                                     THEN [@ EXCEPT ![t].must_cancel = TRUE]
                                     ELSE @]
          m2 == [m1 EXCEPT !.contexts[id].status = INTERRUPTED,
                           !.contexts[id].updated_at = @ + 1]
          h == Append(m2.interrupted_history[user_id], id)
          m3 == IF preserve_context
                THEN [m2 EXCEPT !.interrupted_history[user_id] =
                                   IF Len(h) > HistoryLimit THEN Tail(h) ELSE h]
                ELSE m2
      IN  _notify_status_change(m3, user_id, id)

\* create_task_context building the context around one Event object shared by all
\* contexts (a class-level default in place of the default_factory)
install_new_context_shared_event(m, user_id, query, intent) ==
    LET task_id == Len(m.contexts) + 1
        c == [TaskContext(task_id, user_id, query, intent) EXCEPT
                !.cancel_event = \E i \in 1..Len(m.contexts) : m.contexts[i].cancel_event]
        m1 == [m EXCEPT !.contexts = Append(@, c), !.user_tasks[user_id] = task_id]
    IN  _notify_status_change(m1, user_id, task_id)

\* create_task_context keeping the context the user already has as the
\* user's context (setdefault in place of the assignment of line 120)
install_new_context_setdefault(m, user_id, query, intent) ==
    LET task_id == Len(m.contexts) + 1
        m1 == [m EXCEPT !.contexts = Append(@, TaskContext(task_id, user_id, query, intent)),
                        !.user_tasks[user_id] = IF @ = NoTask THEN task_id ELSE @]
    IN  _notify_status_change(m1, user_id, task_id)

\* create_task_context, second half: the new context is built, installed as the
\* user's context and notified; the new task id (uuid4) is a fresh heap index
install_new_context(m, user_id, query, intent) ==
    LET task_id == Len(m.contexts) + 1
        m1 == [m EXCEPT !.contexts = Append(@, TaskContext(task_id, user_id, query, intent)),
                        !.user_tasks[user_id] = task_id]
    IN  _notify_status_change(m1, user_id, task_id)

\* create_task_context that installs the new context over the old one untouched
supersede_nothing(m, user_id) == m

\* create_task_context, first half: "if user_id in self._user_tasks" the existing
\* context is interrupted with preservation
supersede_existing(m, user_id) ==
    IF m.user_tasks[user_id] # NoTask
    THEN _interrupt_task_internal(m, user_id, TRUE)
    ELSE m

\* create_task_context
create_task_context(m, user_id, query, intent) ==
    install_new_context(supersede_existing(m, user_id), user_id, query, intent)

\* interrupt_task flipping the event of a context that is already signalled
interrupt_task_toggles(m, user_id, preserve_context) ==
    LET m1 == _interrupt_task_internal(m, user_id, preserve_context)
        id == m.user_tasks[user_id]
    IN  IF id # NoTask /\ m.contexts[id].cancel_event
        THEN [m1 EXCEPT !.contexts[id].cancel_event = FALSE]
        ELSE m1

\* interrupt_task
interrupt_task(m, user_id, preserve_context) ==
    _interrupt_task_internal(m, user_id, preserve_context)

\* update_task_status
update_task_status(m, user_id, status, current_agent, partial_results, error) ==
    IF m.user_tasks[user_id] = NoTask THEN m
    ELSE
      LET id == m.user_tasks[user_id]
          c0 == [m.contexts[id] EXCEPT !.status = status, !.updated_at = @ + 1]
          \* "if current_agent:" stores the new name first and only then compares
          \* the stored name with it
          c1 == IF current_agent # None
                THEN LET c == [c0 EXCEPT !.current_agent = current_agent]
                     IN  IF /\ ~InSeq(current_agent, c.agents_completed)
                            /\ c.current_agent # None
                            /\ c.current_agent # current_agent
                         THEN [c EXCEPT !.agents_completed = Append(@, c.current_agent)]
                         ELSE c
                ELSE c0
          \* "if partial_results:" (false for None and for an empty dictionary)
          \* merges the supplied entries, last write wins
          c2 == IF partial_results # NoResults
                THEN [c1 EXCEPT !.partial_results =
                        [a \in Agents |-> IF partial_results[a] # None
                                          THEN partial_results[a] ELSE @[a]]]
                ELSE c1
          c3 == IF error # None THEN [c2 EXCEPT !.error = error] ELSE c2
      IN  _notify_status_change([m EXCEPT !.contexts[id] = c3], user_id, id)

\* save_partial_results
save_partial_results(m, user_id, agent_name, results) ==
    IF m.user_tasks[user_id] = NoTask THEN m
    ELSE
      LET id == m.user_tasks[user_id]
      IN  _notify_status_change(
            [m EXCEPT !.contexts[id].partial_results[agent_name] = results,
                      !.contexts[id].updated_at = @ + 1],
            user_id, id)

\* complete_task without the "user_id not in self._user_tasks" test, working on
\* a context made up for the user
complete_task_unguarded(m, user_id, final_results, status) ==
    LET id == IF m.user_tasks[user_id] = NoTask THEN Len(m.contexts) + 1
              ELSE m.user_tasks[user_id]
        m0 == IF m.user_tasks[user_id] = NoTask
              THEN [m EXCEPT !.contexts = Append(@, TaskContext(id, user_id, "", "")),
                             !.user_tasks[user_id] = id]
              ELSE m
        c0 == [m0.contexts[id] EXCEPT !.status = status, !.final_results = final_results]
        c1 == IF c0.current_agent # None /\ ~InSeq(c0.current_agent, c0.agents_completed)
              THEN [c0 EXCEPT !.agents_completed = Append(@, c0.current_agent)]
              ELSE c0
    IN  _notify_status_change([m0 EXCEPT !.contexts[id] = c1], user_id, id)

\* complete_task appending current_agent whether or not it is listed already
complete_task_appends(m, user_id, final_results, status) ==
    IF m.user_tasks[user_id] = NoTask THEN m
    ELSE
      LET id == m.user_tasks[user_id]
          c0 == [m.contexts[id] EXCEPT !.status = status, !.final_results = final_results]
          c1 == IF c0.current_agent # None
                THEN [c0 EXCEPT !.agents_completed = Append(@, c0.current_agent)]
                ELSE c0
      IN  _notify_status_change([m EXCEPT !.contexts[id] = c1], user_id, id)

\* complete_task dropping the finished context from _user_tasks
complete_task_pops(m, user_id, final_results, status) ==
    IF m.user_tasks[user_id] = NoTask THEN m
    ELSE
      LET id == m.user_tasks[user_id]
          c0 == [m.contexts[id] EXCEPT !.status = status, !.final_results = final_results]
          m1 == _notify_status_change([m EXCEPT !.contexts[id] = c0], user_id, id)
      IN  [m1 EXCEPT !.user_tasks[user_id] = NoTask]

\* complete_task
complete_task(m, user_id, final_results, status) ==
    IF m.user_tasks[user_id] = NoTask THEN m
    ELSE
      LET id == m.user_tasks[user_id]
          c0 == [m.contexts[id] EXCEPT !.status = status, !.final_results = final_results,
                                       !.updated_at = @ + 1]
          c1 == IF c0.current_agent # None /\ ~InSeq(c0.current_agent, c0.agents_completed)
                THEN [c0 EXCEPT !.agents_completed = Append(@, c0.current_agent)]
                ELSE c0
      IN  _notify_status_change([m EXCEPT !.contexts[id] = c1], user_id, id)

\* Python's None as the value of a call that otherwise returns a dictionary
NoneDict == [none |-> TRUE]

\* get_previous_context reading history[0] instead of history[-1]
get_previous_context_oldest(m, user_id, query) ==
    LET history == m.interrupted_history[user_id]
    IN  IF history = <<>> THEN NoneDict
        ELSE LET last_interrupted == m.contexts[history[1]]
             IN  [previous_query |-> last_interrupted.query,
                  previous_intent |-> last_interrupted.intent,
                  partial_results |-> last_interrupted.partial_results,
                  agents_completed |-> last_interrupted.agents_completed,
                  interrupted_at |-> last_interrupted.updated_at]

\* get_previous_context answering only a query equal to the interrupted one
get_previous_context_same_query(m, user_id, query) ==
    LET history == m.interrupted_history[user_id]
    IN  IF history = <<>> THEN NoneDict
        ELSE LET last_interrupted == m.contexts[history[Len(history)]]
             IN  IF last_interrupted.query # query THEN NoneDict
                 ELSE [previous_query |-> last_interrupted.query,
                       previous_intent |-> last_interrupted.intent,
                       partial_results |-> last_interrupted.partial_results,
                       agents_completed |-> last_interrupted.agents_completed,
                       interrupted_at |-> last_interrupted.updated_at]

\* get_previous_context: the most recent entry of the user's history, whatever
\* the query; None when there is none (no list for the user, or an empty one)
get_previous_context(m, user_id, query) ==
    LET history == m.interrupted_history[user_id]
    IN  IF history = <<>> THEN NoneDict
        ELSE LET last_interrupted == m.contexts[history[Len(history)]]
             IN  [previous_query |-> last_interrupted.query,
                  previous_intent |-> last_interrupted.intent,
                  partial_results |-> last_interrupted.partial_results,
                  agents_completed |-> last_interrupted.agents_completed,
                  interrupted_at |-> last_interrupted.updated_at]

\* get_status_dict
get_status_dict(m, user_id) ==
    IF m.user_tasks[user_id] = NoTask THEN [status |-> IDLE]
    ELSE LET context == m.contexts[m.user_tasks[user_id]]
         IN  [task_id |-> context.task_id, status |-> context.status,
              query |-> context.query, intent |-> context.intent,
              current_agent |-> context.current_agent,
              agents_completed |-> context.agents_completed,
              partial_results |-> context.partial_results,
              final_results |-> context.final_results,
              updated_at |-> context.updated_at,
              error |-> context.error]

\* set_task_reference
set_task_reference(m, user_id, task) ==
    IF m.user_tasks[user_id] # NoTask
    THEN [m EXCEPT !.contexts[m.user_tasks[user_id]].task = task]
    ELSE m

\* get_cancellation_event: the event of the user's context (here the task id of
\* the context that owns it), NoTask for None
get_cancellation_event(m, user_id) == m.user_tasks[user_id]

\* the partial_results dictionaries a caller passes to update_task_status
ResultDicts ==
    {[a \in Agents |-> IF a = b THEN p ELSE None] : b \in Agents, p \in Payloads}

\* what a caller's write of results leaves as the last payload per agent
Written(u, results) ==
    IF user_tasks[u] = NoTask THEN saved
    ELSE [saved EXCEPT ![u] = [a \in Agents |-> IF results[a] # None
                                               THEN results[a] ELSE @[a]]]

\* the interruptions with preservation, extended by one of u's context if it has one
Interrupted(u, preserve_context) ==
    IF user_tasks[u] # NoTask /\ preserve_context
    THEN [interruptions EXCEPT ![u] = Append(@, user_tasks[u])]
    ELSE interruptions

\* _cancel_event = None: the instance refers to no Event object
NoEvent == 0

\* CoordinatorAgent.__init__ with the two BaseAgent.__init__ it runs: no Event
\* object yet, _cancel_event and _current_request_id None on both agents,
\* running_tasks = {}

NoAgents ==
    [events |-> <<>>,
     _cancel_event |-> [a \in Agents |-> NoEvent],
     _current_request_id |-> [a \in Agents |-> None],
     running_tasks |-> EmptyDict]

Init ==
    /\ user_tasks = [u \in Users |-> NoTask]
    /\ contexts = <<>>
    /\ interrupted_history = [u \in Users |-> <<>>]
    /\ status_callbacks = [u \in Users |-> <<>>]
    /\ notified = <<>>
    /\ atasks = <<>>
    /\ calls = 0
    /\ last = [op |-> "init"]
    /\ saved = [u \in Users |-> NoResults]
    /\ interruptions = [u \in Users |-> <<>>]
    /\ lock = NoProc
    /\ waiters = <<>>
    /\ pc = [p \in Procs |-> "idle"]
    /\ arg = [p \in Procs |-> [user_id |-> None]]
    /\ ret = [p \in Procs |-> NoTask]
    /\ acquired = <<>>
    /\ contended = {}
    /\ units = <<>>
    /\ store = EmptyDict
    /\ agents = NoAgents

CreateTaskContext(limit) ==
    \E u \in Users, q \in Queries, i \in Intents :
      /\ calls < limit
      /\ Len(contexts) < MaxTasks
      /\ Install(create_task_context(Mgr, u, q, i))
      /\ calls' = calls + 1
      /\ last' = [op |-> "create_task_context", user_id |-> u, query |-> q]
      /\ saved' = [saved EXCEPT ![u] = NoResults]
      /\ interruptions' = Interrupted(u, TRUE)
      /\ UNCHANGED <<coVars, units, store, agents>>

InterruptTask(limit) ==
    \E u \in Users, p \in BOOLEAN :
      /\ calls < limit
      /\ Install(interrupt_task(Mgr, u, p))
      /\ calls' = calls + 1
      /\ last' = [op |-> "interrupt_task", user_id |-> u, preserve_context |-> p]
      /\ interruptions' = Interrupted(u, p)
      /\ UNCHANGED <<saved, coVars, units, store, agents>>

\* The argument lists of update_task_status: any status alone, RUNNING with the
\* agent now at work or with results to merge, FAILED with an error message.
UpdateArgs ==
         { <<s, None, NoResults, None>> : s \in TaskStatus }
    \cup { <<RUNNING, a, NoResults, None>> : a \in Agents }
    \cup { <<RUNNING, None, d, None>> : d \in ResultDicts }
    \cup { <<FAILED, None, NoResults, e>> : e \in Errors }

UpdateTaskStatus(limit) ==
    \E u \in Users, x \in UpdateArgs :
      /\ calls < limit
      /\ Install(update_task_status(Mgr, u, x[1], x[2], x[3], x[4]))
      /\ calls' = calls + 1
      /\ last' = [op |-> "update_task_status", user_id |-> u]
      /\ saved' = Written(u, x[3])
      /\ UNCHANGED <<interruptions, coVars, units, store, agents>>

SavePartialResults(limit) ==
    \E u \in Users, a \in Agents, p \in Payloads :
      /\ calls < limit
      /\ Install(save_partial_results(Mgr, u, a, p))
      /\ calls' = calls + 1
      /\ last' = [op |-> "save_partial_results", user_id |-> u, agent_name |-> a,
                  results |-> p]
      /\ saved' = Written(u, [b \in Agents |-> IF b = a THEN p ELSE None])
      /\ UNCHANGED <<interruptions, coVars, units, store, agents>>

CompleteTask(limit) ==
    \E u \in Users, r \in Finals, s \in {COMPLETED, FAILED} :
      /\ calls < limit
      /\ Install(complete_task(Mgr, u, r, s))
      /\ calls' = calls + 1
      /\ last' = [op |-> "complete_task", user_id |-> u, final_results |-> r,
                  status |-> s]
      /\ UNCHANGED <<saved, interruptions, coVars, units, store, agents>>

\* Callers use the manager one call at a time.
Next ==
    \/ CreateTaskContext(MaxCalls)
    \/ UpdateTaskStatus(MaxCalls)
    \/ SavePartialResults(MaxCalls)
    \/ InterruptTask(MaxCalls)
    \/ CompleteTask(MaxCalls)

Spec == Init /\ [][Next]_vars

\* Long runs of submissions and interruptions, the calls that touch the history.
NextHistory ==
    \/ CreateTaskContext(MaxHistoryCalls)
    \/ InterruptTask(MaxHistoryCalls)

SpecHistory == Init /\ [][NextHistory]_vars

\* ------------------------------------------------- reading the history
\* get_previous_context as a call of its own: it returns what it reads and
\* assigns nothing
GetPreviousContext(limit) ==
    \E u \in Users, q \in Queries :
      /\ calls < limit
      /\ Install(Mgr)
      /\ calls' = calls + 1
      /\ last' = [op |-> "get_previous_context", user_id |-> u, query |-> q,
                  result |-> get_previous_context(Mgr, u, q)]
      /\ UNCHANGED <<saved, interruptions, coVars, units, store, agents>>

NextQuery ==
    \/ CreateTaskContext(MaxQueryCalls)
    \/ SavePartialResults(MaxQueryCalls)
    \/ InterruptTask(MaxQueryCalls)
    \/ GetPreviousContext(MaxQueryCalls)

SpecQuery == Init /\ [][NextQuery]_vars

\* ------------------------------------------------------ status callbacks
RegisterStatusCallback(limit) ==
    \E u \in Users, cb \in Callbacks :
      /\ calls < limit
      /\ Install(register_status_callback(Mgr, u, cb))
      /\ calls' = calls + 1
      /\ last' = [op |-> "register_status_callback", user_id |-> u, callback |-> cb]
      /\ UNCHANGED <<saved, interruptions, coVars, units, store, agents>>

\* Clients register callbacks and callers use the manager, one call at a time.
NextNotify ==
    \/ RegisterStatusCallback(MaxNotifyCalls)
    \/ CreateTaskContext(MaxNotifyCalls)
    \/ UpdateTaskStatus(MaxNotifyCalls)
    \/ SavePartialResults(MaxNotifyCalls)
    \/ InterruptTask(MaxNotifyCalls)
    \/ CompleteTask(MaxNotifyCalls)

SpecNotify == Init /\ [][NextNotify]_vars

\* ------------------------------------------------ concurrent submissions
\* create_task_context without "async with self._lock"
LockIgnored == TRUE

\* asyncio.Lock.acquire returns at once when the lock is free and nobody waits
LockFree == lock = NoProc /\ waiters = <<>>

\* "async with self._lock" of create_task_context: the coroutine takes the lock
\* or queues for it
Call(p) ==
    \E u \in Users, q \in Queries, i \in Intents :
      /\ pc[p] = "idle"
      /\ arg' = [arg EXCEPT ![p] = [user_id |-> u, query |-> q, intent |-> i]]
      /\ IF LockFree
         THEN /\ lock' = p
              /\ pc' = [pc EXCEPT ![p] = "locked"]
              /\ acquired' = Append(acquired, p)
              /\ UNCHANGED <<waiters, contended>>
         ELSE /\ waiters' = Append(waiters, p)
              /\ pc' = [pc EXCEPT ![p] = "waiting"]
              /\ contended' = contended \cup {p}
              /\ UNCHANGED <<lock, acquired>>
      /\ UNCHANGED <<mgrVars, callVars, ret, units, store, agents>>

\* the first waiter is handed the released lock
Acquire(p) ==
    /\ pc[p] = "waiting"
    /\ lock = NoProc
    /\ waiters # <<>> /\ Head(waiters) = p
    /\ lock' = p
    /\ waiters' = Tail(waiters)
    /\ pc' = [pc EXCEPT ![p] = "locked"]
    /\ acquired' = Append(acquired, p)
    /\ UNCHANGED <<mgrVars, callVars, arg, ret, contended, units, store, agents>>

\* lines 104-106; the coroutine may be suspended in an awaited status callback
Supersede(p) ==
    /\ pc[p] = "locked"
    /\ Install(supersede_existing(Mgr, arg[p].user_id))
    /\ pc' = [pc EXCEPT ![p] = "installing"]
    /\ UNCHANGED <<callVars, lock, waiters, arg, ret, acquired, contended, units, store, agents>>

\* lines 108-123; again the notification may suspend the coroutine
InstallNew(p) ==
    /\ pc[p] = "installing"
    /\ Len(contexts) < MaxTasks
    /\ Install(install_new_context(Mgr, arg[p].user_id, arg[p].query, arg[p].intent))
    /\ ret' = [ret EXCEPT ![p] = Len(contexts) + 1]
    /\ pc' = [pc EXCEPT ![p] = "returning"]
    /\ UNCHANGED <<callVars, lock, waiters, arg, acquired, contended, units, store, agents>>

\* line 125 and the end of the "async with" block
Release(p) ==
    /\ pc[p] = "returning"
    /\ lock' = IF lock = p THEN NoProc ELSE lock
    /\ pc' = [pc EXCEPT ![p] = "done"]
    /\ UNCHANGED <<mgrVars, callVars, waiters, arg, ret, acquired, contended, units, store, agents>>

NextConc ==
    \E p \in Procs :
      \/ Call(p)
      \/ Acquire(p)
      \/ Supersede(p)
      \/ InstallNew(p)
      \/ Release(p)

SpecConc == Init /\ [][NextConc]_vars

\* ------------------------------------- submissions of users with callbacks
\* register_status_callback takes the lock as every other call does
RegisterWhenFree ==
    /\ LockFree
    /\ RegisterStatusCallback(MaxRegistrations)

\* The coroutine is not running: it has not started, waits for the lock, has
\* returned, or is suspended inside the lock in the callback that its last
\* notification awaits.
AtAwait(q) ==
    \/ pc[q] \in {"idle", "waiting", "done"}
    \/ pc[q] \in {"installing", "returning"} /\ notified # <<>>

\* a create_task_context for a user whose list holds the coroutine callback
\* "ws" (the notification awaits it, so the call can be suspended in it); the
\* event loop starts the call while every other coroutine is at an await
Submit(p) ==
    /\ \A q \in Procs \ {p} : AtAwait(q)
    /\ Call(p)
    /\ InSeq("ws", status_callbacks[arg'[p].user_id])

NextUsers ==
    \/ RegisterWhenFree
    \/ \E p \in Procs : Submit(p)
    \/ \E p \in Procs : Acquire(p)
    \/ \E p \in Procs : Supersede(p)
    \/ \E p \in Procs : InstallNew(p)
    \/ \E p \in Procs : Release(p)

SpecUsers == Init /\ [][NextUsers]_vars

\* -------------------------------------- registering and unregistering callbacks
UnregisterStatusCallback(limit) ==
    \E u \in Users, cb \in Callbacks :
      /\ calls < limit
      /\ Install(unregister_status_callback(Mgr, u, cb))
      /\ calls' = calls + 1
      /\ last' = [op |-> "unregister_status_callback", user_id |-> u, callback |-> cb]
      /\ UNCHANGED <<saved, interruptions, coVars, units, store, agents>>

\* the callbacks of a user with several clients: those of Callbacks and one more
Subscribers == Callbacks \cup {"poll"}

\* register_status_callback for any of them
Subscribe(limit) ==
    \E u \in Users, cb \in Subscribers :
      /\ calls < limit
      /\ Install(register_status_callback(Mgr, u, cb))
      /\ calls' = calls + 1
      /\ last' = [op |-> "register_status_callback", user_id |-> u, callback |-> cb]
      /\ UNCHANGED <<saved, interruptions, coVars, units, store, agents>>

\* unregister_status_callback for any of them; the call is recorded with the
\* number of registrations the callback had
Unsubscribe(limit) ==
    \E u \in Users, cb \in Subscribers :
      /\ calls < limit
      /\ Install(unregister_status_callback(Mgr, u, cb))
      /\ calls' = calls + 1
      /\ last' = [op |-> "unregister_status_callback", user_id |-> u, callback |-> cb,
                  registered |-> Cardinality({i \in 1..Len(status_callbacks[u]) :
                                                status_callbacks[u][i] = cb})]
      /\ UNCHANGED <<saved, interruptions, coVars, units, store, agents>>

NextUnregister ==
    \/ Subscribe(MaxUnregisterCalls)
    \/ Unsubscribe(MaxUnregisterCalls)
    \/ CreateTaskContext(MaxUnregisterCalls)

SpecUnregister == Init /\ [][NextUnregister]_vars

NextCallbacks ==
    \/ RegisterStatusCallback(MaxCallbackCalls)
    \/ UnregisterStatusCallback(MaxCallbackCalls)
    \/ CreateTaskContext(MaxCallbackCalls)
    \/ UpdateTaskStatus(MaxCallbackCalls)
    \/ SavePartialResults(MaxCallbackCalls)
    \/ InterruptTask(MaxCallbackCalls)
    \/ CompleteTask(MaxCallbackCalls)

SpecCallbacks == Init /\ [][NextCallbacks]_vars

\* ---------------------------------- callbacks that call back into the manager
\* a coroutine callback whose body awaits a manager operation that takes the
\* lock (save_partial_results, unregister_status_callback, get_task_context)
Reentrant == {"again"}

\* register_status_callback for such a callback, or for the websocket callback
RegisterReentrant ==
    \E u \in Users, cb \in Reentrant \cup {"ws"} :
      /\ LockFree
      /\ calls < MaxRegistrations
      /\ Install(register_status_callback(Mgr, u, cb))
      /\ calls' = calls + 1
      /\ last' = [op |-> "register_status_callback", user_id |-> u, callback |-> cb]
      /\ UNCHANGED <<saved, interruptions, coVars, units, store, agents>>

\* coroutine p holds the lock and its notification has invoked a callback that
\* calls back into the manager
InCallback(p) ==
    /\ lock = p
    /\ pc[p] \in {"installing", "returning"}
    /\ \E k \in 1..Len(notified) : notified[k].callback \in Reentrant

\* the coroutine is not running
Parked(q) == AtAwait(q) \/ pc[q] = "reentered"

\* create_task_context is called while every other coroutine is at an await
Enter(p) ==
    /\ \A q \in Procs \ {p} : Parked(q)
    /\ Call(p)

\* the manager operation awaited by the callback reaches "async with self._lock"
\* (line 185): asyncio.Lock is not re-entrant, the lock is taken, and the
\* coroutine that holds it queues for it
Reenter(p) ==
    /\ InCallback(p)
    /\ waiters' = Append(waiters, p)
    /\ pc' = [pc EXCEPT ![p] = "reentered"]
    /\ contended' = contended \cup {p}
    /\ UNCHANGED <<mgrVars, callVars, lock, arg, ret, acquired, units, store, agents>>

\* create_task_context goes on when the callbacks it awaited have returned
Resume(p) ==
    /\ ~InCallback(p)
    /\ \/ Supersede(p)
       \/ InstallNew(p)
       \/ Release(p)

NextReentry ==
    \/ RegisterReentrant
    \/ \E p \in Procs : Enter(p)
    \/ \E p \in Procs : Acquire(p)
    \/ \E p \in Procs : Resume(p)
    \/ \E p \in Procs : Reenter(p)

SpecReentry == Init /\ [][NextReentry]_vars

\* ------------------------------------------------------ runner.AgentManager
\* The awaited StateStore calls of the runner (append_message, get_conversation,
\* get_partials, preserve_interrupted_context): they keep the conversation and
\* return without touching the interruption manager.
store_call(m) == m

\* asyncio.create_task(_run()): a new task object, not started yet
create_task(m) == [m EXCEPT !.atasks = Append(@, [done |-> FALSE, must_cancel |-> FALSE])]

\* a task object whose coroutine has returned or was cancelled
finished(m, k) == [m EXCEPT !.atasks[k].done = TRUE]

\* handle_user_message: the message is stored, a context created (superseding
\* the user's previous one), the workflow started as a task and the task
\* registered on the user's context
HandleUserMessage ==
    \E u \in Users, q \in Queries :
      /\ calls < MaxRunnerCalls
      /\ Len(contexts) < MaxTasks
      /\ calls' = calls + 1
      /\ LET m1 == create_task_context(store_call(Mgr), u, q, "")
             k == Len(atasks) + 1
         IN  /\ Install(set_task_reference(create_task(m1), u, k))
             /\ units' = Append(units, [user_id |-> u, task_id |-> Len(m1.contexts),
                                        pc |-> "created", cancel_event |-> NoTask])
      /\ last' = [op |-> "handle_user_message", user_id |-> u, query |-> q]
      /\ UNCHANGED <<saved, interruptions, coVars, store, agents>>

\* AgentManager.interrupt
Interrupt ==
    \E u \in Users :
      /\ calls < MaxRunnerCalls
      /\ calls' = calls + 1
      /\ Install(interrupt_task(Mgr, u, TRUE))
      /\ last' = [op |-> "interrupt_task", user_id |-> u, preserve_context |-> TRUE]
      /\ UNCHANGED <<saved, interruptions, coVars, units, store, agents>>

\* _run, the "except asyncio.CancelledError" handler (lines 229-248)
on_cancelled(m, user_id) ==
    update_task_status(store_call(store_call(m)), user_id, INTERRUPTED,
                       None, NoResults, None)

\* _run up to "await asyncio.to_thread(self._agent.invoke, ...)" (lines 66-141).
\* A task cancelled before its first step never enters the try block.
UnitStart ==
    \E k \in 1..Len(units) :
      /\ units[k].pc = "created"
      /\ IF atasks[k].must_cancel
         THEN /\ Install(finished(Mgr, k))
              /\ units' = [units EXCEPT ![k].pc = "done"]
         ELSE LET u == units[k].user_id
                  m1 == update_task_status(Mgr, u, RUNNING, None, NoResults, None)
              IN  /\ Install(store_call(m1))
                  /\ units' = [units EXCEPT ![k].pc = "invoking",
                                            ![k].cancel_event = get_cancellation_event(m1, u)]
      /\ last' = [op |-> "unit_start", user_id |-> units[k].user_id, unit |-> k]
      /\ UNCHANGED <<calls, saved, interruptions, coVars, store, agents>>

\* task.cancel() reaches the unit while it awaits the agent: CancelledError
UnitCancelled ==
    \E k \in 1..Len(units) :
      /\ units[k].pc = "invoking"
      /\ atasks[k].must_cancel
      /\ Install(finished(on_cancelled(Mgr, units[k].user_id), k))
      /\ units' = [units EXCEPT ![k].pc = "done"]
      /\ last' = [op |-> "unit_cancelled", user_id |-> units[k].user_id, unit |-> k]
      /\ UNCHANGED <<calls, saved, interruptions, coVars, store, agents>>

\* the agent returns a response (lines 142-227): a set cancellation event raises
\* CancelledError, otherwise the task is completed
UnitReturn ==
    \E k \in 1..Len(units) :
      /\ units[k].pc = "invoking"
      /\ ~atasks[k].must_cancel
      /\ LET u == units[k].user_id
             ev == units[k].cancel_event
         IN  IF ev # NoTask /\ contexts[ev].cancel_event
             THEN Install(finished(on_cancelled(Mgr, u), k))
             ELSE \E r \in Finals :
                    Install(finished(complete_task(store_call(Mgr), u, r, COMPLETED), k))
      /\ units' = [units EXCEPT ![k].pc = "done"]
      /\ last' = [op |-> "unit_return", user_id |-> units[k].user_id, unit |-> k]
      /\ UNCHANGED <<calls, saved, interruptions, coVars, store, agents>>

\* the agent raises (lines 250-260)
UnitFail ==
    \E k \in 1..Len(units) :
      /\ units[k].pc = "invoking"
      /\ ~atasks[k].must_cancel
      /\ \E e \in Errors :
           Install(finished(update_task_status(Mgr, units[k].user_id, FAILED,
                                               None, NoResults, e), k))
      /\ units' = [units EXCEPT ![k].pc = "done"]
      /\ last' = [op |-> "unit_fail", user_id |-> units[k].user_id, unit |-> k]
      /\ UNCHANGED <<calls, saved, interruptions, coVars, store, agents>>

\* the coroutines that run handle_user_message at the same time
Handlers == {"A", "B"}

\* handle_user_message up to "await set_task_reference" (lines 49-278): the
\* message is stored, the context created and the workflow started as a task.
\* At that await the coroutine queues for the manager's lock when another call
\* holds it or waits for it, and other coroutines and the new task run.
HandleCreate(p) ==
    \E u \in Users, q \in Queries :
      /\ pc[p] \in {"idle", "done"}
      /\ calls < MaxRaceCalls
      /\ Len(contexts) < MaxTasks
      /\ calls' = calls + 1
      /\ LET m1 == create_task_context(store_call(Mgr), u, q, "")
             k == Len(atasks) + 1
         IN  /\ Install(create_task(m1))
             /\ units' = Append(units, [user_id |-> u, task_id |-> Len(m1.contexts),
                                        pc |-> "created", cancel_event |-> NoTask])
             /\ arg' = [arg EXCEPT ![p] = [user_id |-> u, query |-> q, unit |-> k]]
             /\ ret' = [ret EXCEPT ![p] = Len(m1.contexts)]
      /\ pc' = [pc EXCEPT ![p] = "referencing"]
      /\ last' = [op |-> "handle_user_message", user_id |-> u, query |-> q]
      /\ UNCHANGED <<saved, interruptions, lock, waiters, acquired, contended, store, agents>>

\* handle_user_message, lines 279-281: the task is stored on the context that
\* the user has now, and the task id returned
HandleSetRef(p) ==
    /\ pc[p] = "referencing"
    /\ Install(set_task_reference(Mgr, arg[p].user_id, arg[p].unit))
    /\ pc' = [pc EXCEPT ![p] = "done"]
    /\ last' = [op |-> "set_task_reference", user_id |-> arg[p].user_id,
                unit |-> arg[p].unit]
    /\ UNCHANGED <<calls, saved, interruptions, lock, waiters, arg, ret, acquired,
                   contended, units, store, agents>>

\* Concurrent handle_user_message calls and the units they start.
NextRace ==
    \/ \E p \in Handlers : HandleCreate(p)
    \/ \E p \in Handlers : HandleSetRef(p)
    \/ UnitStart
    \/ UnitCancelled
    \/ UnitReturn
    \/ UnitFail

SpecRace == Init /\ [][NextRace]_vars

\* simulate_agent_work, the payloads it saves: its progress (lines 46-50) and
\* what it had done when it saw the cancellation event set (lines 34-38)
SimProgress == "p1"
SimCancelledAt == "p2"

\* a driver starts simulate_agent_work as a task and stores the task on the
\* user's context (quick_test_interruption.py lines 72-73, 98-99, 129-130)
SimStart ==
    \E u \in Users, a \in Agents :
      /\ Len(units) < MaxSims
      /\ user_tasks[u] # NoTask
      /\ LET k == Len(atasks) + 1
         IN  /\ Install(set_task_reference(create_task(Mgr), u, k))
             /\ units' = Append(units, [user_id |-> u, agent_name |-> a, pc |-> "created",
                                        i |-> 0, cancel_event |-> NoTask, status |-> None])
      /\ last' = [op |-> "sim_start", user_id |-> u]
      /\ UNCHANGED <<calls, saved, interruptions, coVars, store, agents>>

\* simulate_agent_work, lines 22-28: the unit's first run fetches the
\* cancellation event of the user's context; a task cancelled before its first
\* run never enters the function
SimFetch ==
    \E k \in 1..Len(units) :
      /\ units[k].pc = "created"
      /\ IF atasks[k].must_cancel
         THEN /\ Install(finished(Mgr, k))
              /\ units' = [units EXCEPT ![k].pc = "done", ![k].status = "aborted"]
         ELSE /\ Install(Mgr)
              /\ units' = [units EXCEPT
                             ![k].pc = "checking",
                             ![k].cancel_event = get_cancellation_event(Mgr, units[k].user_id)]
      /\ last' = [op |-> "sim_fetch", unit |-> k]
      /\ UNCHANGED <<calls, saved, interruptions, coVars, store, agents>>

\* simulate_agent_work, lines 29-40 and 53-54: the head of the loop. When the
\* event is set the unit saves what it has done and returns "cancelled"; after
\* the last chunk it returns "completed"; otherwise it goes to sleep.
SimCheckpoint ==
    \E k \in 1..Len(units) :
      LET unit == units[k]
          ev == unit.cancel_event
      IN  /\ unit.pc = "checking"
          /\ IF unit.i = MaxChunks
             THEN /\ Install(finished(Mgr, k))
                  /\ units' = [units EXCEPT ![k].pc = "done", ![k].status = "completed"]
             ELSE IF ev # NoTask /\ contexts[ev].cancel_event
             THEN /\ Install(finished(save_partial_results(Mgr, unit.user_id,
                                       unit.agent_name, SimCancelledAt), k))
                  /\ units' = [units EXCEPT ![k].pc = "done", ![k].status = "cancelled"]
             ELSE /\ Install(Mgr)
                  /\ units' = [units EXCEPT ![k].pc = "sleeping"]
          /\ last' = [op |-> "sim_checkpoint", unit |-> k]
          /\ UNCHANGED <<calls, saved, interruptions, coVars, store, agents>>

\* simulate_agent_work, lines 41-51: the sleep ends. A task that was cancelled
\* meanwhile gets CancelledError there, which the function does not catch;
\* otherwise progress is saved for every fifth chunk and the loop goes on.
SimWake ==
    \E k \in 1..Len(units) :
      LET unit == units[k]
      IN  /\ unit.pc = "sleeping"
          /\ IF atasks[k].must_cancel
             THEN /\ Install(finished(Mgr, k))
                  /\ units' = [units EXCEPT ![k].pc = "done", ![k].status = "aborted"]
             ELSE /\ Install(IF unit.i % 5 = 0
                             THEN save_partial_results(Mgr, unit.user_id,
                                                       unit.agent_name, SimProgress)
                             ELSE Mgr)
                  /\ units' = [units EXCEPT ![k].pc = "checking", ![k].i = @ + 1]
          /\ last' = [op |-> "sim_wake", unit |-> k]
          /\ UNCHANGED <<calls, saved, interruptions, coVars, store, agents>>

\* The manager under a driver that creates and interrupts contexts and starts
\* simulate_agent_work units.
NextCancel ==
    \/ CreateTaskContext(MaxCancelCalls)
    \/ InterruptTask(MaxCancelCalls)
    \/ SimStart
    \/ SimFetch
    \/ SimCheckpoint
    \/ SimWake

SpecCancel == Init /\ [][NextCancel]_vars

NextRunner ==
    \/ HandleUserMessage
    \/ Interrupt
    \/ UnitStart
    \/ UnitCancelled
    \/ UnitReturn
    \/ UnitFail

SpecRunner == Init /\ [][NextRunner]_vars

\* ------------------------------------------------- state_store.StateStore
\* The timestamps of the entries (timestamp, cancelled_at, completed_at,
\* error_at) are wall-clock stamps that no method reads back; they are left out.
Requests == {"r1", "r2"}

\* d[k] = v on a dictionary, and del d[k]
Put(d, k, v) == [x \in DOMAIN d \cup {k} |-> IF x = k THEN v ELSE d[x]]
Del(d, k) == [x \in DOMAIN d \ {k} |-> d[x]]

\* the structure made for an agent on its first save_partial, mark_cancelled
\* or mark_error
NewAgentState ==
    [partials |-> <<>>, cancelled |-> FALSE,
     metadata |-> [status |-> None, error |-> None]]

\* "Initialize request structure if needed", "Initialize agent structure if
\* needed"
initialized(st, request_id, agent) ==
    LET st1 == IF request_id \notin DOMAIN st THEN Put(st, request_id, EmptyDict) ELSE st
    IN  IF agent \notin DOMAIN st1[request_id]
        THEN Put(st1, request_id, Put(st1[request_id], agent, NewAgentState))
        ELSE st1

\* get_all_partials, read for one agent: the entries stored for the agent, []
\* when the request or the agent is unknown
get_partials(st, request_id, agent) ==
    IF request_id \in DOMAIN st /\ agent \in DOMAIN st[request_id]
    THEN st[request_id][agent].partials
    ELSE <<>>

\* save_partial numbering the entries of a request across its agents
save_partial_per_request(st, request_id, agent, payload) ==
    LET st1 == initialized(st, request_id, agent)
        n == Len(get_partials(st1, request_id, "flight"))
             + Len(get_partials(st1, request_id, "hotel"))
    IN  [st1 EXCEPT ![request_id][agent].partials =
                       Append(@, [data |-> payload, sequence |-> n])]

\* save_partial
save_partial(st, request_id, agent, payload) ==
    LET st1 == initialized(st, request_id, agent)
        partial_entry == [data |-> payload,
                          sequence |-> Len(st1[request_id][agent].partials)]
    IN  [st1 EXCEPT ![request_id][agent].partials = Append(@, partial_entry)]

\* mark_cancelled building the agent's structure anew on every call (the test
\* "agent not in self._store[request_id]" dropped)
mark_cancelled_anew(st, request_id, agent) ==
    LET st1 == IF request_id \notin DOMAIN st THEN Put(st, request_id, EmptyDict) ELSE st
    IN  Put(st1, request_id,
            Put(st1[request_id], agent, [NewAgentState EXCEPT !.cancelled = TRUE]))

\* mark_cancelled
mark_cancelled(st, request_id, agent) ==
    [initialized(st, request_id, agent) EXCEPT ![request_id][agent].cancelled = TRUE]

\* mark_completed: only for an agent that has a structure
mark_completed(st, request_id, agent) ==
    IF request_id \in DOMAIN st /\ agent \in DOMAIN st[request_id]
    THEN [st EXCEPT ![request_id][agent].metadata.status = "completed"]
    ELSE st

\* mark_error
mark_error(st, request_id, agent, error) ==
    [initialized(st, request_id, agent) EXCEPT
       ![request_id][agent].metadata.status = "error",
       ![request_id][agent].metadata.error = error]

\* clear_request
clear_request(st, request_id) ==
    IF request_id \in DOMAIN st THEN Del(st, request_id) ELSE st

\* get_all_partials: agent -> its entries, {} for an unknown request
get_all_partials(st, request_id) ==
    IF request_id \notin DOMAIN st THEN EmptyDict
    ELSE [agent \in DOMAIN st[request_id] |-> st[request_id][agent].partials]

\* get_partial_data_only: the payloads of the agent's entries, in order
get_partial_data_only(st, request_id, agent) ==
    LET partials == get_all_partials(st, request_id)
    IN  IF agent \in DOMAIN partials
        THEN [i \in 1..Len(partials[agent]) |-> partials[agent][i].data]
        ELSE <<>>

\* is_cancelled
is_cancelled(st, request_id, agent) ==
    IF request_id \notin DOMAIN st THEN FALSE
    ELSE IF agent \notin DOMAIN st[request_id] THEN FALSE
    ELSE st[request_id][agent].cancelled

\* a StateStore call: the counter and the record of the call
StoreCall(op, request_id, agent) ==
    /\ calls < MaxStoreCalls
    /\ calls' = calls + 1
    /\ last' = [op |-> op, request_id |-> request_id, agent |-> agent]
    /\ UNCHANGED <<mgrVars, saved, interruptions, coVars, units, agents>>

SavePartial ==
    \E r \in Requests, a \in Agents, p \in Payloads :
      /\ store' = save_partial(store, r, a, p)
      /\ StoreCall("save_partial", r, a)

MarkCancelled ==
    \E r \in Requests, a \in Agents :
      /\ store' = mark_cancelled(store, r, a)
      /\ StoreCall("mark_cancelled", r, a)

MarkCompleted ==
    \E r \in Requests, a \in Agents :
      /\ store' = mark_completed(store, r, a)
      /\ StoreCall("mark_completed", r, a)

MarkError ==
    \E r \in Requests, a \in Agents, e \in Errors :
      /\ store' = mark_error(store, r, a, e)
      /\ StoreCall("mark_error", r, a)

ClearRequest ==
    \E r \in Requests :
      /\ store' = clear_request(store, r)
      /\ StoreCall("clear_request", r, None)

\* the read operations (get_all_partials, get_partial_data_only, is_cancelled,
\* get_request_state, get_all_requests, get_agents_for_request,
\* get_agent_state): they return what they read and assign nothing
ReadStore ==
    \E r \in Requests, a \in Agents :
      /\ store' = store
      /\ StoreCall("read", r, a)

\* Agents and coordinators use the store one call at a time (each method runs
\* under the store's RLock).
NextStore ==
    \/ SavePartial
    \/ MarkCancelled
    \/ MarkCompleted
    \/ MarkError
    \/ ClearRequest
    \/ ReadStore

SpecStore == Init /\ [][NextStore]_vars

\* ------------------------------------------- threads calling save_partial
\* Here Procs are threads, lock is StateStore._lock (a threading.RLock), arg
\* the arguments of a thread's call, ret the sequence number it has computed,
\* and acquired the arguments of the calls in the order they took the lock.

\* "with self._lock" not waiting for the lock
RLockIgnored(p) == TRUE

\* threading.RLock.acquire: free, or already held by the calling thread
RLockFree(p) == lock = NoProc \/ lock = p

ThreadCall(p) ==
    \E r \in Requests, a \in Agents, d \in Payloads :
      /\ pc[p] \in {"idle", "done"}
      /\ calls < MaxThreadCalls
      /\ calls' = calls + 1
      /\ arg' = [arg EXCEPT ![p] = [request_id |-> r, agent |-> a, payload |-> d]]
      /\ pc' = [pc EXCEPT ![p] = "entering"]
      /\ UNCHANGED <<mgrVars, last, saved, interruptions, lock, waiters, ret,
                     acquired, contended, units, store, agents>>

\* line 51
ThreadEnter(p) ==
    /\ pc[p] = "entering"
    /\ RLockFree(p)
    /\ lock' = p
    /\ acquired' = Append(acquired, arg[p])
    /\ pc' = [pc EXCEPT ![p] = "initializing"]
    /\ UNCHANGED <<mgrVars, callVars, waiters, arg, ret, contended, units, store, agents>>

\* lines 52-63
ThreadInit(p) ==
    /\ pc[p] = "initializing"
    /\ store' = initialized(store, arg[p].request_id, arg[p].agent)
    /\ pc' = [pc EXCEPT ![p] = "numbering"]
    /\ UNCHANGED <<mgrVars, callVars, lock, waiters, arg, ret, acquired, contended, units, agents>>

\* lines 65-70: the entry is built, numbered with the length of the list
ThreadNumber(p) ==
    /\ pc[p] = "numbering"
    /\ ret' = [ret EXCEPT ![p] = Len(store[arg[p].request_id][arg[p].agent].partials)]
    /\ pc' = [pc EXCEPT ![p] = "appending"]
    /\ UNCHANGED <<mgrVars, callVars, lock, waiters, arg, acquired, contended, units, store, agents>>

\* line 72
ThreadAppend(p) ==
    /\ pc[p] = "appending"
    /\ store' = [store EXCEPT ![arg[p].request_id][arg[p].agent].partials =
                    Append(@, [data |-> arg[p].payload, sequence |-> ret[p]])]
    /\ pc' = [pc EXCEPT ![p] = "leaving"]
    /\ UNCHANGED <<mgrVars, callVars, lock, waiters, arg, ret, acquired, contended, units, agents>>

\* the end of the "with" block
ThreadLeave(p) ==
    /\ pc[p] = "leaving"
    /\ lock' = NoProc
    /\ pc' = [pc EXCEPT ![p] = "done"]
    /\ UNCHANGED <<mgrVars, callVars, waiters, arg, ret, acquired, contended, units, store, agents>>

\* The threads are preemptive: any thread can take its next step at any time.
NextThreads ==
    \/ \E p \in Procs : ThreadCall(p)
    \/ \E p \in Procs : ThreadEnter(p)
    \/ \E p \in Procs : ThreadInit(p)
    \/ \E p \in Procs : ThreadNumber(p)
    \/ \E p \in Procs : ThreadAppend(p)
    \/ \E p \in Procs : ThreadLeave(p)

SpecThreads == Init /\ [][NextThreads]_vars

\* ------------------------------------------------------------- properties
TaskIds == 1..Len(contexts)
ContextsOf(u) == {i \in TaskIds : contexts[i].user_id = u}
Live == {QUEUED, RUNNING}
Terminal == {COMPLETED, FAILED, CANCELLED, INTERRUPTED}
HasContext(u) == user_tasks[u] # NoTask
LastN(s, n) == IF Len(s) <= n THEN s ELSE SubSeq(s, Len(s) - n + 1, Len(s))

\* the step is a call for user u that interrupts u's context, by supersession or
\* by interrupt_task with either value of preserve_context
InterruptsContextOf(u) ==
    /\ HasContext(u)
    /\ calls' = calls + 1
    /\ last'.op \in {"create_task_context", "interrupt_task"}
    /\ last'.user_id = u

\* ... and pushes it on the history
PreservesContextOf(u) ==
    /\ InterruptsContextOf(u)
    /\ last'.op = "interrupt_task" => last'.preserve_context

\* C1: for every user, at most one of all the contexts ever created for that user
\* (the active one and the superseded ones) has status QUEUED or RUNNING.
Thm_C1 ==
    \A u \in Users : Cardinality({i \in ContextsOf(u) : contexts[i].status \in Live}) <= 1

\* a superseded context in the history while the user's context is RUNNING
Wit_C1 ==
    \E u \in Users :
      /\ HasContext(u)
      /\ contexts[user_tasks[u]].status = RUNNING
      /\ \E i \in ContextsOf(u) : i # user_tasks[u] /\ InSeq(i, interrupted_history[u])

\* C2: a create_task_context for a user whose context is not terminal leaves that
\* context INTERRUPTED and in the user's history, and the user's context is the
\* new one, QUEUED, for the new query.
Thm_C2 ==
    [][\A u \in Users :
         ( /\ HasContext(u)
           /\ calls' = calls + 1
           /\ last'.op = "create_task_context"
           /\ last'.user_id = u
           /\ contexts[user_tasks[u]].status \notin Terminal )
         => LET old == user_tasks[u]
                new == user_tasks'[u]
            IN  /\ contexts'[old].status = INTERRUPTED
                /\ InSeq(old, interrupted_history'[u])
                /\ new # old
                /\ new \notin TaskIds
                /\ contexts'[new].query = last'.query
                /\ contexts'[new].status = QUEUED
                /\ get_status_dict(Mgr', u).task_id = new]_vars

\* a submission has just superseded a context: it is the last history entry
Wit_C2 ==
    \E u \in Users :
      /\ last.op = "create_task_context"
      /\ last.user_id = u
      /\ interrupted_history[u] # <<>>
      /\ interrupted_history[u][Len(interrupted_history[u])] # user_tasks[u]
      /\ contexts[user_tasks[u]].query = "hotels"

\* position of a coroutine in the order of lock acquisition (0: not yet)
Pos(p) == IF InSeq(p, acquired)
          THEN CHOOSE k \in 1..Len(acquired) : acquired[k] = p
          ELSE 0

\* the calls for the same user that took the lock after p did and have already
\* gone through the supersession step
Later(p) ==
    {q \in Procs \ {p} : /\ arg[q].user_id = arg[p].user_id
                         /\ Pos(q) > Pos(p)
                         /\ pc[q] \in {"installing", "returning", "done"}}

\* C3: concurrent create_task_context calls for one user take effect in the
\* order in which they take the lock: the context of the call that took it last
\* is the user's context and is QUEUED; the context of every earlier call is
\* INTERRUPTED and in the user's history; never are two contexts of a user
\* QUEUED or RUNNING; no context is lost (every context is the user's context
\* or a history entry).
Thm_C3 ==
    /\ \A u \in Users :
         /\ Cardinality({i \in ContextsOf(u) : contexts[i].status \in Live}) <= 1
         /\ \A i \in ContextsOf(u) :
              \/ i = user_tasks[u]
              \/ InSeq(i, interrupted_history[u]) /\ contexts[i].status = INTERRUPTED
    /\ \A p \in Procs :
         ret[p] # NoTask =>
           LET u == arg[p].user_id
           IN  IF Later(p) = {}
               THEN user_tasks[u] = ret[p] /\ contexts[ret[p]].status = QUEUED
               ELSE /\ contexts[ret[p]].status = INTERRUPTED
                    /\ InSeq(ret[p], interrupted_history[u])
                    /\ \A q \in Later(p) :
                         ret[q] # NoTask => /\ ret[q] > ret[p]
                                            /\ user_tasks[u] # ret[p]

\* two calls for one user have returned; the second had to wait for the lock
\* while the first was suspended inside it, and owns the user's context
Wit_C3 ==
    \E p, q \in Procs :
      /\ p # q
      /\ pc[p] = "done" /\ pc[q] = "done"
      /\ arg[p].user_id = arg[q].user_id
      /\ Pos(p) < Pos(q)
      /\ q \in contended
      /\ user_tasks[arg[q].user_id] = ret[q]
      /\ InSeq(ret[p], interrupted_history[arg[p].user_id])

\* C4: when a user's context is interrupted with preservation (by supersession
\* or by interrupt_task), get_previous_context then returns, for every query, the
\* query of that context and, for every agent, the payload last saved for it.
Thm_C4 ==
    [][\A u \in Users :
         PreservesContextOf(u)
         => \A q \in Queries :
              LET r == get_previous_context(Mgr', u, q)
              IN  /\ r # NoneDict
                  /\ r.previous_query = contexts[user_tasks[u]].query
                  /\ \A a \in Agents :
                       saved[u][a] # None => r.partial_results[a] = saved[u][a]]_vars

\* after a supersession the previous context carries a saved payload
Wit_C4 ==
    \E u \in Users, a \in Agents :
      /\ last.op = "create_task_context"
      /\ last.user_id = u
      /\ get_previous_context(Mgr, u, "hotels") # NoneDict
      /\ get_previous_context(Mgr, u, "hotels").partial_results[a] = "p2"
      /\ contexts[user_tasks[u]].partial_results = NoResults

\* C5 (as amended): the history of a user never has more than 5 entries and is
\* always the last (at most 5) interruptions with preservation, in their order,
\* most recent last, one entry per such interruption.
Thm_C5 ==
    \A u \in Users :
      /\ Len(interrupted_history[u]) <= HistoryLimit
      /\ interrupted_history[u] = LastN(interruptions[u], HistoryLimit)

\* more than 5 preserving interruptions, of more than one context, have happened
Wit_C5 ==
    \E u \in Users :
      /\ Len(interruptions[u]) > HistoryLimit
      /\ Len(interrupted_history[u]) = HistoryLimit
      /\ interrupted_history[u][1] # interrupted_history[u][HistoryLimit]

\* C5 (as stated): every interruption that happens while the history holds 5
\* entries evicts the oldest entry and appends the interrupted context.
Cex_C5 ==
    [][\A u \in Users :
         (InterruptsContextOf(u) /\ Len(interrupted_history[u]) = HistoryLimit)
         => interrupted_history'[u] =
              Append(Tail(interrupted_history[u]), user_tasks[u])]_vars

\* C6: an interrupt_task(u) (preserve_context defaulted to true) that directly
\* follows another one for the same user changes no context, no history and no
\* user's context.
Cex_C6 ==
    [][\A u \in Users :
         ( /\ last.op = "interrupt_task" /\ last.user_id = u
           /\ last.preserve_context
           /\ calls' = calls + 1
           /\ last'.op = "interrupt_task" /\ last'.user_id = u
           /\ last'.preserve_context )
         => /\ contexts' = contexts
            /\ interrupted_history' = interrupted_history
            /\ user_tasks' = user_tasks]_vars

\* C7: a context whose status is COMPLETED, FAILED, CANCELLED or INTERRUPTED
\* keeps that status in every later step.
Cex_C7 ==
    [][\A i \in TaskIds :
         contexts[i].status \in Terminal => contexts'[i].status = contexts[i].status]_vars

\* C8: the status of a context becomes INTERRUPTED only in an interrupt_task or
\* a superseding submission for its user, applied to that user's context; never
\* in a step of an execution unit.
Cex_C8 ==
    [][\A i \in TaskIds :
         (contexts[i].status # INTERRUPTED /\ contexts'[i].status = INTERRUPTED)
         => /\ last'.op \in {"handle_user_message", "interrupt_task"}
            /\ i = user_tasks[last'.user_id]]_vars

\* C9: a context that is in a user's history and stays in it keeps its status,
\* query, partial_results and agents_completed.
Cex_C9 ==
    [][\A u \in Users : \A i \in TaskIds :
         (InSeq(i, interrupted_history[u]) /\ InSeq(i, interrupted_history'[u]))
         => /\ contexts'[i].status = contexts[i].status
            /\ contexts'[i].query = contexts[i].query
            /\ contexts'[i].partial_results = contexts[i].partial_results
            /\ contexts'[i].agents_completed = contexts[i].agents_completed]_vars

\* C10: a create_task_context that supersedes a COMPLETED context does not add
\* that context to the user's history, and get_previous_context does not return it.
Cex_C10 ==
    [][\A u \in Users :
         ( /\ HasContext(u)
           /\ calls' = calls + 1
           /\ last'.op = "create_task_context"
           /\ last'.user_id = u
           /\ contexts[user_tasks[u]].status = COMPLETED )
         => /\ ~InSeq(user_tasks[u], interrupted_history'[u])
            /\ interrupted_history'[u] = interrupted_history[u]]_vars

\* C12: a cancellation signal that is set stays set in every later step (no call
\* clears it, setting it again leaves it set), and every interrupt_task or
\* supersession sets the signal of the context it interrupts.
Thm_C12 ==
    [][/\ \A i \in TaskIds : contexts[i].cancel_event => contexts'[i].cancel_event
       /\ \A u \in Users :
            InterruptsContextOf(u) => contexts'[user_tasks[u]].cancel_event]_vars

\* a context has just been interrupted for the second time and is signalled
Wit_C12 ==
    \E u \in Users :
      /\ last.op = "interrupt_task" /\ last.user_id = u
      /\ Len(interruptions[u]) >= 2
      /\ interruptions[u][Len(interruptions[u])] = interruptions[u][Len(interruptions[u]) - 1]
      /\ contexts[user_tasks[u]].cancel_event

\* C13: the context a create_task_context installs has a task id that no earlier
\* context has, is QUEUED, has no partial results, no completed agents, no final
\* results and no error, and its signal is not set; the signal of the context it
\* supersedes, if any, is set when the call returns.
Thm_C13 ==
    [][\A u \in Users :
         (calls' = calls + 1 /\ last'.op = "create_task_context" /\ last'.user_id = u)
         => LET new == user_tasks'[u]
                c == contexts'[new]
            IN  /\ new \notin TaskIds
                /\ c.task_id = new
                /\ \A i \in TaskIds : contexts'[i].task_id # c.task_id
                /\ c.status = QUEUED
                /\ c.partial_results = NoResults
                /\ c.agents_completed = <<>>
                /\ c.final_results = None
                /\ c.error = None
                /\ ~c.cancel_event
                /\ HasContext(u) => contexts'[user_tasks[u]].cancel_event]_vars

\* a submission has superseded a context that carried results: the old context
\* is signalled, the new one is not and is empty
Wit_C13 ==
    \E u \in Users, i \in TaskIds :
      /\ last.op = "create_task_context" /\ last.user_id = u
      /\ i # user_tasks[u]
      /\ contexts[i].user_id = u
      /\ contexts[i].cancel_event
      /\ contexts[i].partial_results # NoResults
      /\ ~contexts[user_tasks[u]].cancel_event
      /\ contexts[user_tasks[u]].partial_results = NoResults

\* C18: an update_task_status that replaces a stored current_agent (not None,
\* not yet in agents_completed) by another name appends the stored name to
\* agents_completed.
Cex_C18 ==
    [][\A u \in Users :
         ( /\ HasContext(u)
           /\ calls' = calls + 1
           /\ last'.op = "update_task_status" /\ last'.user_id = u
           /\ contexts[user_tasks[u]].current_agent # None
           /\ contexts'[user_tasks[u]].current_agent # contexts[user_tasks[u]].current_agent
           /\ ~InSeq(contexts[user_tasks[u]].current_agent,
                     contexts[user_tasks[u]].agents_completed) )
         => contexts'[user_tasks[u]].agents_completed =
              Append(contexts[user_tasks[u]].agents_completed,
                     contexts[user_tasks[u]].current_agent)]_vars

\* the calls that work on the user's existing context
ContextCalls ==
    {"update_task_status", "save_partial_results", "complete_task", "interrupt_task"}

\* the step is a manager call named in ops for user u
CallOf(u, ops) ==
    /\ calls' = calls + 1
    /\ last'.op \in ops
    /\ last'.user_id = u

\* the step is a call for user u that notifies: a submission, or a call on the
\* context that u has
Notifies(u) ==
    \/ CallOf(u, {"create_task_context"})
    \/ CallOf(u, ContextCalls) /\ HasContext(u)

\* C14: for a user without a context, update_task_status, save_partial_results,
\* complete_task and interrupt_task change nothing in the manager (contexts,
\* users' contexts, histories, callbacks, tasks) and invoke no callback, and
\* get_status_dict returns exactly {status: idle}.
Thm_C14 ==
    [][\A u \in Users :
         (CallOf(u, ContextCalls) /\ ~HasContext(u))
         => /\ user_tasks' = user_tasks
            /\ contexts' = contexts
            /\ interrupted_history' = interrupted_history
            /\ status_callbacks' = status_callbacks
            /\ atasks' = atasks
            /\ notified' = <<>>
            /\ get_status_dict(Mgr', u) = [status |-> IDLE]]_vars

\* a call for a user that has a callback but no context has just returned,
\* while the other user has a context
Wit_C14 ==
    \E u \in Users, v \in Users :
      /\ last.op \in ContextCalls /\ last.user_id = u
      /\ ~HasContext(u)
      /\ status_callbacks[u] # <<>>
      /\ HasContext(v)
      /\ notified = <<>>

\* the invocations of one call for u are one or two rounds over the callbacks
\* of u, each round in registration order
InRegistrationOrder(u) ==
    LET cbs == status_callbacks[u]
        n == Len(cbs)
    IN  /\ Len(notified') \in {n, 2 * n}
        /\ \A k \in 1..Len(notified') :
             /\ notified'[k].callback = cbs[((k - 1) % n) + 1]
             /\ notified'[k].user_id = u

\* what the call of the step has done to the context of u
Effect(u) ==
    LET old == user_tasks[u]
        new == user_tasks'[u]
    IN  /\ last'.op = "create_task_context"
           => /\ new \notin TaskIds
              /\ contexts'[new].status = QUEUED
              /\ contexts'[new].query = last'.query
        /\ last'.op = "interrupt_task"
           => contexts'[old].status = INTERRUPTED /\ contexts'[old].cancel_event
        /\ last'.op = "save_partial_results"
           => contexts'[old].partial_results[last'.agent_name] = last'.results
        /\ last'.op = "complete_task"
           => /\ contexts'[old].status \in {COMPLETED, FAILED}
              /\ contexts'[old].final_results # None
        /\ (last'.op = "update_task_status" /\ notified' # <<>>)
           => contexts'[old].status = notified'[Len(notified')].status

\* C15: when a callback of u raises during a notification, the callbacks
\* registered after it are invoked all the same, the call keeps its effect on
\* the context and returns with the lock released.
Thm_C15 ==
    [][\A u \in Users :
         (Notifies(u) /\ \E i \in 1..Len(status_callbacks[u]) :
                           status_callbacks[u][i] \in Raising)
         => /\ InRegistrationOrder(u)
            /\ Effect(u)
            /\ lock' = NoProc]_vars

\* a callback has raised and the one registered after it was invoked with the
\* payload that the call has stored
Wit_C15 ==
    \E u \in Users, k \in 1..Len(notified) :
      /\ last.op = "save_partial_results" /\ last.user_id = u
      /\ k < Len(notified)
      /\ notified[k].raised
      /\ ~notified[k + 1].raised
      /\ notified[k + 1].task_id = user_tasks[u]
      /\ contexts[user_tasks[u]].partial_results[last.agent_name] = last.results
      /\ lock = NoProc

\* how often callback cb is in the sequence of callbacks or of invocations
Registered(cb, cbs) == Cardinality({i \in 1..Len(cbs) : cbs[i] = cb})
Invoked(cb, invocations) ==
    Cardinality({k \in 1..Len(invocations) : invocations[k].callback = cb})

\* the step is one of the five mutating calls, for user u
Mutates(u) == CallOf(u, ContextCalls \cup {"create_task_context"})

\* C16 (as amended): a callback registered once for u is invoked once by every
\* update_task_status, save_partial_results, complete_task and interrupt_task
\* on a context of u and by a create_task_context for u without a context; it
\* is invoked twice by a superseding create_task_context (first with the
\* superseded context, INTERRUPTED, then with the new one, QUEUED) and not at
\* all by a call for u without a context; only callbacks of u are invoked.
Thm_C16 ==
    [][\A u \in Users : \A cb \in Callbacks :
         (Mutates(u) /\ Registered(cb, status_callbacks[u]) = 1)
         => /\ Invoked(cb, notified') =
                 IF last'.op = "create_task_context"
                 THEN (IF HasContext(u) THEN 2 ELSE 1)
                 ELSE (IF HasContext(u) THEN 1 ELSE 0)
            /\ \A k \in 1..Len(notified') : notified'[k].user_id = u
            /\ (last'.op = "create_task_context" /\ HasContext(u))
               => \E j, k \in 1..Len(notified') :
                    /\ j < k
                    /\ notified'[j].callback = cb /\ notified'[k].callback = cb
                    /\ notified'[j].task_id = user_tasks[u]
                    /\ notified'[j].status = INTERRUPTED
                    /\ notified'[k].task_id = user_tasks'[u]
                    /\ notified'[k].status = QUEUED]_vars

\* a superseding submission has invoked the one callback of the user twice
Wit_C16 ==
    \E u \in Users :
      /\ last.op = "create_task_context" /\ last.user_id = u
      /\ Len(status_callbacks[u]) = 1
      /\ Len(notified) = 2
      /\ notified[1].status = INTERRUPTED
      /\ notified[2].status = QUEUED
      /\ notified[2].task_id = user_tasks[u]

\* C16 (as stated): every mutating call on u invokes a callback registered
\* (once) for u exactly once.
Cex_C16 ==
    [][\A u \in Users : \A cb \in Callbacks :
         (Mutates(u) /\ Registered(cb, status_callbacks[u]) = 1)
         => Invoked(cb, notified') = 1]_vars

\* C17: on each notification for u the callbacks of u are invoked in their
\* registration order, and each is handed the context as the call leaves it
\* (status, partial_results, final_results and the rest as stored).
Thm_C17 ==
    [][\A u \in Users :
         Notifies(u)
         => /\ InRegistrationOrder(u)
            /\ \A k \in 1..Len(notified') :
                 /\ notified'[k].context = contexts'[notified'[k].task_id]
                 /\ notified'[k].status = contexts'[notified'[k].task_id].status
            /\ \A k \in 1..Len(status_callbacks[u]) :
                 notified'[Len(notified') - Len(status_callbacks[u]) + k].task_id
                   = user_tasks'[u]
            /\ Effect(u)]_vars

\* two different callbacks were handed, in registration order, the context with
\* the payload just saved
Wit_C17 ==
    \E u \in Users :
      /\ last.op = "save_partial_results" /\ last.user_id = u
      /\ Len(status_callbacks[u]) = 2
      /\ status_callbacks[u][1] # status_callbacks[u][2]
      /\ Len(notified) = 2
      /\ notified[1].callback = status_callbacks[u][1]
      /\ notified[2].callback = status_callbacks[u][2]
      /\ notified[2].context.partial_results[last.agent_name] = last.results

\* C19: in every reachable state, a payload that an active context holds for an
\* agent (written by save_partial_results) is the payload of the last entry of
\* the partial-result store for (the context's task id, that agent).
Cex_C19 ==
    \A u \in Users : \A a \in Agents :
      (HasContext(u) /\ contexts[user_tasks[u]].partial_results[a] # None)
      => LET entries == get_partials(store, contexts[user_tasks[u]].task_id, a)
         IN  /\ entries # <<>>
             /\ entries[Len(entries)].data = contexts[user_tasks[u]].partial_results[a]

\* C20: in every reachable state of the store the i-th entry (from 0) of each
\* (request, agent) pair has sequence number i, and a save_partial appends one
\* entry with the payload and the next number to its pair and leaves the
\* entries of every other pair as they are.
Thm_C20 ==
    /\ [](\A r \in DOMAIN store : \A a \in DOMAIN store[r] :
            \A i \in 1..Len(store[r][a].partials) :
              store[r][a].partials[i].sequence = i - 1)
    /\ [][\A r \in Requests : \A a \in Agents :
            IF calls' = calls + 1 /\ last'.op = "save_partial"
               /\ last'.request_id = r /\ last'.agent = a
            THEN LET old == get_partials(store, r, a)
                     new == get_partials(store', r, a)
                 IN  /\ Len(new) = Len(old) + 1
                     /\ SubSeq(new, 1, Len(old)) = old
                     /\ new[Len(new)].sequence = Len(old)
            ELSE last'.op = "save_partial"
                 => get_partials(store', r, a) = get_partials(store, r, a)]_vars

\* a pair holds three entries and the other agent of the request holds one,
\* saved in between
Wit_C20 ==
    \E r \in Requests, a \in Agents, b \in Agents :
      /\ a # b
      /\ last.op = "save_partial" /\ last.request_id = r /\ last.agent = a
      /\ Len(get_partials(store, r, a)) = 3
      /\ get_partials(store, r, a)[3].sequence = 2
      /\ Len(get_partials(store, r, b)) = 1
      /\ get_partials(store, r, b)[1].sequence = 0

\* C11: no call waits for the lock while a call for another user is inside its
\* critical section (holding the lock, for instance suspended in an awaited
\* status callback).
Cex_C11 ==
    \A p \in Procs, q \in Procs :
      (lock = p /\ pc[p] \in {"locked", "installing", "returning"} /\ pc[q] = "waiting")
      => arg[p].user_id = arg[q].user_id

\* s is a prefix of t
IsPrefix(s, t) == Len(s) <= Len(t) /\ SubSeq(t, 1, Len(s)) = s

\* the step is a store call
StoreStep == calls' = calls + 1 /\ "request_id" \in DOMAIN last'

\* C21 (as amended): every store operation other than clear_request leaves the
\* entries of each (request, agent) pair a prefix of the entries after it;
\* clear_request(r) removes the entries of every pair of r and leaves the
\* pairs of the other requests as they are.
Thm_C21 ==
    [][StoreStep =>
         \A r \in Requests : \A a \in Agents :
           IF last'.op = "clear_request" /\ last'.request_id = r
           THEN get_partials(store', r, a) = <<>>
           ELSE IsPrefix(get_partials(store, r, a), get_partials(store', r, a))]_vars

\* a request was cleared while it held entries, the other request keeps its own
Wit_C21 ==
    \E r \in Requests, q \in Requests, a \in Agents :
      /\ last.op = "clear_request" /\ last.request_id = r
      /\ r \notin DOMAIN store
      /\ q # r
      /\ Len(get_partials(store, q, a)) = 2
      /\ is_cancelled(store, q, a)

\* C21 (as stated): every store operation, clear_request included, leaves the
\* entries of each (request, agent) pair a prefix of the entries after it.
Cex_C21 ==
    [][StoreStep =>
         \A r \in Requests : \A a \in Agents :
           IsPrefix(get_partials(store, r, a), get_partials(store', r, a))]_vars

\* the save_partial calls for the pair (r, a) that have taken the lock, and
\* the threads that hold it for the pair without having appended yet
Entered(r, a) ==
    {k \in 1..Len(acquired) : acquired[k].request_id = r /\ acquired[k].agent = a}
Appending(r, a) ==
    {p \in Procs : /\ pc[p] \in {"initializing", "numbering", "appending"}
                   /\ arg[p].request_id = r /\ arg[p].agent = a}

\* C22: whatever the interleaving of the threads, each pair holds one entry per
\* save_partial call that has appended (n entries once n calls have returned),
\* numbered 0..n-1 in the order of the list, no number twice.
Thm_C22 ==
    \A r \in Requests : \A a \in Agents :
      LET entries == get_partials(store, r, a)
      IN  /\ Len(entries) = Cardinality(Entered(r, a)) - Cardinality(Appending(r, a))
          /\ \A i \in 1..Len(entries) : entries[i].sequence = i - 1

\* three threads have called save_partial on one pair and all have returned
Wit_C22 ==
    \E r \in Requests, a \in Agents :
      /\ \A p \in Procs : pc[p] = "done" /\ arg[p].request_id = r /\ arg[p].agent = a
      /\ Len(get_partials(store, r, a)) >= 3
      /\ lock = NoProc

\* C23: right after complete_task(u, r, s) on a user with a context,
\* get_status_dict(u) reports final_results r and status s under the task id
\* of that context; and whatever call follows, get_status_dict(u) goes on
\* reporting the task id of u's context until a create_task_context for u.
Thm_C23 ==
    [][\A u \in Users :
         HasContext(u)
         => LET d == get_status_dict(Mgr', u)
            IN  /\ CallOf(u, {"complete_task"})
                   => /\ d # [status |-> IDLE]
                      /\ d.task_id = contexts[user_tasks[u]].task_id
                      /\ d.final_results = last'.final_results
                      /\ d.status = last'.status
                /\ ~CallOf(u, {"create_task_context"})
                   => /\ d # [status |-> IDLE]
                      /\ d.task_id = contexts[user_tasks[u]].task_id]_vars

\* a completed context is still the one reported, two calls after its
\* completion
Wit_C23 ==
    \E u \in Users :
      /\ HasContext(u)
      /\ calls = 4
      /\ last.op \in {"save_partial_results", "interrupt_task"} /\ last.user_id = u
      /\ get_status_dict(Mgr, u).final_results = "r1"
      /\ get_status_dict(Mgr, u).task_id = 1
      /\ Len(contexts) = 1

\* the units started for user u, by unit id
UnitsOf(u) == {k \in 1..Len(units) : units[k].user_id = u}
Latest(ks) == CHOOSE k \in ks : \A j \in ks : j <= k

\* C25: after any sequence of handle_user_message calls (and interrupts, and
\* steps of the units), get_status_dict reports for each user the task id that
\* the user's most recent handle_user_message returned.
Thm_C25 ==
    \A u \in Users :
      UnitsOf(u) # {}
      => /\ get_status_dict(Mgr, u) # [status |-> IDLE]
         /\ get_status_dict(Mgr, u).task_id = units[Latest(UnitsOf(u))].task_id

\* a user has submitted twice, the first unit has ended, and the task id
\* reported is the one of the second submission
Wit_C25 ==
    \E u \in Users :
      /\ Cardinality(UnitsOf(u)) = 2
      /\ \E k \in UnitsOf(u) : k # Latest(UnitsOf(u)) /\ units[k].pc = "done"
      /\ get_status_dict(Mgr, u).task_id = units[Latest(UnitsOf(u))].task_id
      /\ get_status_dict(Mgr, u).status = RUNNING

\* C26: right after interrupt_task(u) on a user with a context,
\* get_status_dict(u) reports that context: its task id, status interrupted,
\* and its partial_results as they were, with every payload saved before.
Thm_C26 ==
    [][\A u \in Users :
         (CallOf(u, {"interrupt_task"}) /\ HasContext(u))
         => LET d == get_status_dict(Mgr', u)
                c == contexts[user_tasks[u]]
            IN  /\ d # [status |-> IDLE]
                /\ d.task_id = c.task_id
                /\ d.status = INTERRUPTED
                /\ d.partial_results = c.partial_results
                /\ \A a \in Agents :
                     saved[u][a] # None => d.partial_results[a] = saved[u][a]]_vars

\* an interrupted context is reported with the payload saved before
Wit_C26 ==
    \E u \in Users, a \in Agents :
      /\ last.op = "interrupt_task" /\ last.user_id = u
      /\ HasContext(u)
      /\ saved[u][a] = "p2"
      /\ get_status_dict(Mgr, u).status = INTERRUPTED
      /\ get_status_dict(Mgr, u).partial_results[a] = "p2"

\* C29: in every reachable state no agent name is twice in the
\* agents_completed of a context.
Thm_C29 ==
    \A i \in TaskIds :
      \A j, k \in 1..Len(contexts[i].agents_completed) :
        j # k => contexts[i].agents_completed[j] # contexts[i].agents_completed[k]

\* a complete_task has run on a context whose current agent is listed: the
\* name is there once
Wit_C29 ==
    \E u \in Users :
      /\ HasContext(u)
      /\ last.op = "complete_task" /\ last.user_id = u
      /\ contexts[user_tasks[u]].current_agent # None
      /\ contexts[user_tasks[u]].agents_completed =
           <<contexts[user_tasks[u]].current_agent>>

\* C24: get_previous_context(u, q) returns None exactly when the history of u
\* is empty; otherwise it returns query, intent, partial_results and
\* agents_completed of the context most recently added to the history, the
\* same for every q; the call changes nothing in the manager.
Thm_C24 ==
    [][\A u \in Users :
         CallOf(u, {"get_previous_context"})
         => LET r == last'.result
                h == interruptions[u]
            IN  /\ r = NoneDict <=> interrupted_history[u] = <<>>
                /\ r = NoneDict <=> h = <<>>
                /\ h # <<>>
                   => LET c == contexts[h[Len(h)]]
                      IN  /\ r.previous_query = c.query
                          /\ r.previous_intent = c.intent
                          /\ r.partial_results = c.partial_results
                          /\ r.agents_completed = c.agents_completed
                /\ \A q \in Queries : get_previous_context(Mgr, u, q) = r
                /\ user_tasks' = user_tasks
                /\ contexts' = contexts
                /\ interrupted_history' = interrupted_history
                /\ status_callbacks' = status_callbacks
                /\ atasks' = atasks]_vars

\* the call was made with another query than the interrupted one and has
\* returned the interrupted context with its payload
Wit_C24 ==
    \E u \in Users, a \in Agents :
      /\ last.op = "get_previous_context" /\ last.user_id = u
      /\ last.result # NoneDict
      /\ last.result.previous_query # last.query
      /\ last.result.partial_results[a] = "p2"

\* the context that unit k was started for is no longer its user's context
Superseded(k) == user_tasks[units[k].user_id] # units[k].task_id

\* C30: the task stored on a context is always the unit started for that
\* context, and once the handle_user_message calls have returned, a unit at
\* work whose context was superseded has been aborted through its task or
\* holds a cancellation event that is set.
Cex_C30 ==
    /\ \A i \in TaskIds :
         contexts[i].task # NoTask => units[contexts[i].task].task_id = i
    /\ (\A p \in Handlers : pc[p] \in {"idle", "done"})
       => \A k \in 1..Len(units) :
            (units[k].pc = "invoking" /\ Superseded(k))
            => \/ atasks[k].must_cancel
               \/ /\ units[k].cancel_event # NoTask
                  /\ contexts[units[k].cancel_event].cancel_event

\* C27: when a unit fails with error e, the context that the unit was started
\* for becomes FAILED with error e.
Cex_C27 ==
    [][\A k \in 1..Len(units) :
         (last'.op = "unit_fail" /\ last'.unit = k /\ units[k].pc = "invoking"
            /\ units'[k].pc = "done")
         => /\ contexts'[units[k].task_id].status = FAILED
            /\ contexts'[units[k].task_id].error \in Errors]_vars

\* C28: the step that a unit takes at a checkpoint where its cancellation event
\* is set publishes no partial result and ends the unit with outcome "cancelled".
Cex_C28 ==
    [][\A k \in 1..Len(units) :
         (/\ units[k].pc = "checking"
          /\ units[k].i < MaxChunks
          /\ units[k].cancel_event # NoTask
          /\ contexts[units[k].cancel_event].cancel_event
          /\ units'[k] # units[k])
         => /\ units'[k].status = "cancelled"
            /\ \A i \in TaskIds :
                 contexts'[i].partial_results = contexts[i].partial_results]_vars

\* C31: a step of an execution unit whose context has been superseded leaves
\* the status, partial_results and final_results of the user's new active
\* context as they were.
Cex_C31 ==
    [][\A k \in 1..Len(units) :
         (/\ last'.op \in {"unit_start", "unit_cancelled", "unit_return", "unit_fail"}
          /\ last'.unit = k
          /\ units'[k] # units[k]
          /\ Superseded(k))
         => LET new == user_tasks[units[k].user_id]
            IN  /\ contexts'[new].status = contexts[new].status
                /\ contexts'[new].partial_results = contexts[new].partial_results
                /\ contexts'[new].final_results = contexts[new].final_results]_vars

\* C32: in a create_task_context that supersedes a context of a user with
\* callbacks, every callback is first invoked for the old context with status
\* INTERRUPTED, the old context being in the user's history and its cancellation
\* event set at that moment, and only then for the new context with status QUEUED.
Thm_C32 ==
    [][\A u \in Users :
         (CallOf(u, {"create_task_context"}) /\ user_tasks[u] # NoTask)
         => LET n == Len(status_callbacks[u])
                old == user_tasks[u]
                new == user_tasks'[u]
            IN  /\ new # old
                /\ Len(notified') = 2 * n
                /\ \A k \in 1..Len(notified') :
                     IF k <= n
                     THEN /\ notified'[k].task_id = old
                          /\ notified'[k].status = INTERRUPTED
                          /\ notified'[k].context.cancel_event
                          /\ InSeq(old, notified'[k].history)
                     ELSE /\ notified'[k].task_id = new
                          /\ notified'[k].status = QUEUED]_vars

\* a superseding create_task_context has invoked two callbacks of the user, each
\* first for the old and then for the new context
Wit_C32 ==
    \E u \in Users :
      /\ last.op = "create_task_context" /\ last.user_id = u
      /\ Len(status_callbacks[u]) = 2
      /\ Len(notified) = 4
      /\ notified[2].status = INTERRUPTED
      /\ InSeq(notified[2].task_id, notified[2].history)
      /\ notified[3].status = QUEUED

\* C33: no coroutine waits for the lock while it holds the lock itself (the lock
\* is released only by its holder, so such a state is a deadlock of every
\* manager operation).
Cex_C33 ==
    \A p \in Procs : lock = p => ~InSeq(p, waiters)

\* the manager calls that are addressed to a user
UserCalls ==
    ContextCalls \cup {"create_task_context", "register_status_callback",
                       "unregister_status_callback"}

\* C35: a call addressed to user a leaves the context of every other user b, b's
\* history (and the contexts in it) and b's callback list as they were, and
\* every callback invocation it makes comes from a's list.
Thm_C35 ==
    [][\A a \in Users, b \in Users :
         (a # b /\ CallOf(a, UserCalls))
         => /\ user_tasks'[b] = user_tasks[b]
            /\ HasContext(b) => contexts'[user_tasks[b]] = contexts[user_tasks[b]]
            /\ interrupted_history'[b] = interrupted_history[b]
            /\ \A i \in TaskIds :
                 InSeq(i, interrupted_history[b]) => contexts'[i] = contexts[i]
            /\ status_callbacks'[b] = status_callbacks[b]
            /\ \A k \in 1..Len(notified') : notified'[k].user_id = a]_vars

\* a context has just been created for one user while the other user has a
\* context and a callback, and no callback was invoked
Wit_C35 ==
    \E a \in Users, b \in Users :
      /\ a # b
      /\ last.op = "create_task_context" /\ last.user_id = a
      /\ HasContext(b)
      /\ status_callbacks[b] # <<>>
      /\ notified = <<>>

\* C36: interrupt_task(u, preserve_context = FALSE) on a user with a context sets
\* the cancellation event and the status INTERRUPTED and leaves the history of u
\* as it was, and get_previous_context(u, q) returns after the call what it
\* returned before it.
Cex_C36 ==
    [][\A u \in Users :
         (CallOf(u, {"interrupt_task"}) /\ ~last'.preserve_context /\ HasContext(u))
         => /\ contexts'[user_tasks[u]].cancel_event
            /\ contexts'[user_tasks[u]].status = INTERRUPTED
            /\ interrupted_history'[u] = interrupted_history[u]
            /\ \A q \in Queries :
                 get_previous_context(Mgr', u, q) = get_previous_context(Mgr, u, q)]_vars

\* the callbacks of s other than cb, in the order of s
Others(cb, s) == SelectSeq(s, LAMBDA c : c # cb)

\* C37: unregister_status_callback(u, cb) removes one registration of cb from
\* the list of u, or nothing when cb is not in it, keeps the other callbacks in
\* their order, changes nothing else and invokes nothing; a later call that
\* notifies invokes the callbacks of the list of u in list order, so a callback
\* that is no longer in it is not invoked.
Thm_C37 ==
    [][\A u \in Users :
         /\ CallOf(u, {"unregister_status_callback"})
            => LET cb == last'.callback
                   n == Registered(cb, status_callbacks[u])
               IN  /\ Registered(cb, status_callbacks'[u]) = IF n = 0 THEN 0 ELSE n - 1
                   /\ Others(cb, status_callbacks'[u]) = Others(cb, status_callbacks[u])
                   /\ n = 0 => status_callbacks' = status_callbacks
                   /\ \A v \in Users \ {u} : status_callbacks'[v] = status_callbacks[v]
                   /\ user_tasks' = user_tasks
                   /\ contexts' = contexts
                   /\ interrupted_history' = interrupted_history
                   /\ notified' = <<>>
         /\ CallOf(u, {"create_task_context"})
            => /\ InRegistrationOrder(u)
               /\ \A cb \in Subscribers :
                    Registered(cb, status_callbacks[u]) = 0 => Invoked(cb, notified') = 0]_vars

\* a callback that was registered once has just been unregistered from a list
\* that held two other callbacks, which are still there
Wit_C37 ==
    \E u \in Users :
      /\ last.op = "unregister_status_callback" /\ last.user_id = u
      /\ last.registered = 1
      /\ Len(status_callbacks[u]) = 2
      /\ status_callbacks[u][1] # status_callbacks[u][2]
      /\ ~InSeq(last.callback, status_callbacks[u])

\* ---------------------------------------------------------------------------
\* The agents (agent/base_agent.py, agent/flight_agent.py, agent/hotel_agent.py)
\* and their coordinator (agent/coordinator.py).  The coordinator owns ONE
\* FlightAgent and ONE HotelAgent; every request runs on these two instances.
\* agents.events is the heap of asyncio.Event objects (events[e] = is_set()),
\* agents._cancel_event[a] the Event the instance refers to at the moment.
\* ---------------------------------------------------------------------------

\* the number of batches search_flights_iter / search_hotels_iter yield
MaxPages == 2
\* the bound on the agent runs started
MaxRuns == 2

\* search_flights_iter(params), search_hotels_iter(params): the batches the
\* iterator yields, each one with its page number
search_flights_iter == [i \in 1..MaxPages |-> [page |-> i]]

\* BaseAgent.is_cancelled
agent_is_cancelled(c, a) ==
    c._cancel_event[a] # NoEvent /\ c.events[c._cancel_event[a]]

\* BaseAgent.cancel
agent_cancel(c, a) ==
    IF c._cancel_event[a] # NoEvent /\ ~c.events[c._cancel_event[a]]
    THEN [c EXCEPT !.events[c._cancel_event[a]] = TRUE]
    ELSE c

\* BaseAgent.run, lines 54-55: a fresh Event, stored on the instance
run_begin(c, a, request_id) ==
    [c EXCEPT !.events = Append(@, FALSE),
              !._cancel_event[a] = Len(c.events) + 1,
              !._current_request_id[a] = request_id]

\* BaseAgent.run, the finally clause
run_finally(c, a) ==
    [c EXCEPT !._cancel_event[a] = NoEvent, !._current_request_id[a] = None]

\* a BaseAgent.run call as a coroutine: where it is, the batches it has
\* processed, the status of the result it returned; told records that cancel()
\* was called on its agent while it was in progress (history field)
NewRun(a, request_id) ==
    [agent |-> a, request_id |-> request_id, pc |-> "created", page |-> 0,
     status |-> None, told |-> FALSE]

InProgress(k) == units[k].pc = "fetching"

\* the runs of agent a that are in progress hear of a cancel() on a
Told(us, as) ==
    [k \in DOMAIN us |->
       IF us[k].pc = "fetching" /\ us[k].agent \in as
       THEN [us[k] EXCEPT !.told = TRUE] ELSE us[k]]

agentFrame == <<user_tasks, contexts, interrupted_history, status_callbacks, notified,
                calls, saved, interruptions, coVars>>

\* process_message up to its await of gather: one task per detected intent,
\* running_tasks[request_id] = tasks
ProcessMessage ==
    \E r \in Requests, intents \in (SUBSET Agents) \ {{}} :
      /\ \A k \in DOMAIN units : units[k].request_id # r
      /\ Len(units) + Cardinality(intents) <= MaxRuns
      /\ LET names == IF intents = Agents THEN <<"flight", "hotel">>
                      ELSE <<CHOOSE a \in intents : TRUE>>
             n == Len(units)
         IN  /\ units' = units \o [i \in 1..Len(names) |-> NewRun(names[i], r)]
             /\ atasks' = atasks \o [i \in 1..Len(names) |->
                                       [done |-> FALSE, must_cancel |-> FALSE]]
             /\ agents' = [agents EXCEPT !.running_tasks =
                             Put(@, r, [i \in 1..Len(names) |-> n + i])]
      /\ last' = [op |-> "process_message", request_id |-> r]
      /\ UNCHANGED <<agentFrame, store>>

\* the first step of a run's task: run() up to the first batch it waits for.
\* The event loop starts the tasks in the order of their creation.  A task
\* cancelled before its first step never enters run().
RunStart ==
    \E k \in DOMAIN units :
      /\ units[k].pc = "created"
      /\ \A j \in 1..(k - 1) : units[j].pc # "created"
      /\ IF atasks[k].must_cancel
         THEN /\ atasks' = [atasks EXCEPT ![k] = [done |-> TRUE, must_cancel |-> FALSE]]
              /\ units' = [units EXCEPT ![k].pc = "done", ![k].status = "CancelledError"]
              /\ agents' = agents
         ELSE /\ agents' = run_begin(agents, units[k].agent, units[k].request_id)
              /\ units' = [units EXCEPT ![k].pc = "fetching"]
              /\ atasks' = atasks
      /\ last' = [op |-> "run", unit |-> k]
      /\ UNCHANGED <<agentFrame, store>>

\* the run returns a result with this status: the finally clause, the task done
Return(k, status) ==
    /\ units' = [units EXCEPT ![k].pc = "done", ![k].status = status]
    /\ atasks' = [atasks EXCEPT ![k] = [done |-> TRUE, must_cancel |-> FALSE]]
    /\ agents' = run_finally(agents, units[k].agent)
    /\ last' = [op |-> "return", unit |-> k]

\* _execute, one turn of "async for batch": checkpoint, publish_partial,
\* checkpoint (nothing suspends the run between the two checkpoints)
RunBatch ==
    \E k \in DOMAIN units :
      /\ InProgress(k)
      /\ ~atasks[k].must_cancel
      /\ units[k].page < Len(search_flights_iter)
      /\ IF agent_is_cancelled(agents, units[k].agent)
         THEN /\ Return(k, "cancelled")
              /\ store' = store
         ELSE /\ units' = [units EXCEPT ![k].page = @ + 1]
              /\ store' = save_partial(store, units[k].request_id, units[k].agent,
                                       search_flights_iter[units[k].page + 1].page)
              /\ last' = [op |-> "batch", unit |-> k]
              /\ UNCHANGED <<atasks, agents>>
      /\ UNCHANGED agentFrame

\* _execute after the last batch: "Determine final status"
RunExhausted ==
    \E k \in DOMAIN units :
      /\ InProgress(k)
      /\ ~atasks[k].must_cancel
      /\ units[k].page = Len(search_flights_iter)
      /\ Return(k, IF agent_is_cancelled(agents, units[k].agent)
                   THEN "cancelled" ELSE "completed")
      /\ UNCHANGED <<agentFrame, store>>

\* CancelledError raised in the run where it waits for a batch: _execute
\* re-raises, run() calls on_cancel and returns the "cancelled" result
RunCancelled ==
    \E k \in DOMAIN units :
      /\ InProgress(k)
      /\ atasks[k].must_cancel
      /\ store' = mark_cancelled(store, units[k].request_id, units[k].agent)
      /\ Return(k, "cancelled")
      /\ UNCHANGED agentFrame

\* agent.cancel() called by the owner of the agent (test_cancelled_search)
AgentCancel ==
    \E a \in Agents :
      /\ agents' = agent_cancel(agents, a)
      /\ units' = Told(units, {a})
      /\ last' = [op |-> "cancel", agent |-> a]
      /\ UNCHANGED <<agentFrame, atasks, store>>

\* task.cancel() on the task of a run (test_task_cancellation)
TaskCancel ==
    \E k \in DOMAIN units :
      /\ ~atasks[k].done
      /\ atasks' = [atasks EXCEPT ![k].must_cancel = TRUE]
      /\ last' = [op |-> "task.cancel", unit |-> k]
      /\ UNCHANGED <<agentFrame, units, store, agents>>

\* cancel_request: both agents, then the tasks of the request that are not done
cancel_request(c, ts, request_id) ==
    LET c1 == agent_cancel(agent_cancel(c, "flight"), "hotel")
    IN  [c |-> c1,
         atasks |-> [k \in DOMAIN ts |->
                       IF /\ request_id \in DOMAIN c1.running_tasks
                          /\ \E i \in DOMAIN c1.running_tasks[request_id] :
                               c1.running_tasks[request_id][i] = k
                          /\ ~ts[k].done
                       THEN [ts[k] EXCEPT !.must_cancel = TRUE] ELSE ts[k]]]

CancelRequest ==
    \E r \in Requests :
      /\ LET res == cancel_request(agents, atasks, r)
         IN  /\ agents' = res.c
             /\ atasks' = res.atasks
      /\ units' = Told(units, Agents)
      /\ last' = [op |-> "cancel_request", request_id |-> r]
      /\ UNCHANGED <<agentFrame, store>>

\* process_message, step 4: the status it returns for the results gathered.
\* A task cancelled before its first step gives gather a CancelledError, which
\* is no Exception: result.get raises and so does process_message.
overall_status(statuses) ==
    IF \E i \in DOMAIN statuses : statuses[i] = "CancelledError" THEN "raised"
    ELSE IF \E i \in DOMAIN statuses : statuses[i] = "cancelled" THEN "cancelled"
    ELSE "completed"

\* gather returns once every task of the request is done; the finally clause
\* deletes running_tasks[request_id]
ProcessDone ==
    \E r \in DOMAIN agents.running_tasks :
      LET tasks == agents.running_tasks[r]
      IN  /\ \A i \in DOMAIN tasks : atasks[tasks[i]].done
          /\ agents' = [agents EXCEPT !.running_tasks = Del(@, r)]
          /\ last' = [op |-> "process_done", request_id |-> r,
                      status |-> overall_status([i \in DOMAIN tasks |->
                                                   units[tasks[i]].status])]
          /\ UNCHANGED <<agentFrame, atasks, units, store>>

NextAgents ==
    \/ ProcessMessage
    \/ RunStart
    \/ RunBatch
    \/ RunExhausted
    \/ RunCancelled
    \/ AgentCancel
    \/ TaskCancel
    \/ CancelRequest
    \/ ProcessDone

SpecAgents == Init /\ [][NextAgents]_vars

\* C34: a run that returned a result with status "cancelled" for request r,
\* stopped by cancel() on its agent or by the cancellation of its task, has
\* is_cancelled(r, agent) true in the state store
Cex_C34 ==
    \A k \in DOMAIN units :
      (units[k].pc = "done" /\ units[k].status = "cancelled")
      => is_cancelled(store, units[k].request_id, units[k].agent)

\* the step is a checkpoint of run k: it takes a batch or finds none left
Checkpoint(k) ==
    /\ InProgress(k)
    /\ ~atasks[k].must_cancel
    /\ last'.op \in {"batch", "return"}
    /\ last'.unit = k

\* C38: a run on whose agent cancel() was called while it was in progress
\* reads is_cancelled() true at each of its later checkpoints, also when
\* another run starts or ends on the same agent in the meantime; a run that
\* starts after a cancel() made while no run was in progress starts uncancelled
Cex_C38 ==
    [][\A k \in DOMAIN units :
         /\ (Checkpoint(k) /\ units[k].told)
            => agent_is_cancelled(agents, units[k].agent)
         /\ (units[k].pc = "created" /\ units'[k].pc = "fetching")
            => ~agent_is_cancelled(agents', units[k].agent)]_vars

\* C39: while two requests are in progress, cancel_request(r) leaves the runs
\* in progress for the other request as they were: is_cancelled() of their
\* agent reads what it read before and their tasks are not cancelled
Cex_C39 ==
    [][\A k \in DOMAIN units :
         (last'.op = "cancel_request"
          /\ last'.request_id \in DOMAIN agents.running_tasks
          /\ InProgress(k)
          /\ units[k].request_id # last'.request_id)
         => /\ agent_is_cancelled(agents', units[k].agent)
               = agent_is_cancelled(agents, units[k].agent)
            /\ atasks'[k] = atasks[k]]_vars
====
